---- MODULE Spec2Model ----
(***************************************************************************)
(* Model of the mp3-player-visualizer repository: the frequency-data       *)
(* reduction functions (audio utilities and the useAudioVisualizer hook),  *)
(* the per-frame sampling loops of the player components, the components'  *)
(* mount/unmount lifecycle (audio contexts, element bindings, object       *)
(* URLs), the playback and volume state of useAudioPlayer and Mp3Player,   *)
(* the file validation of validateAudioFile and FileUpload, the hook's     *)
(* waveform reduction, the local cache functions and PlaybackControls.     *)
(***************************************************************************)
EXTENDS Integers, Sequences, FiniteSets, TLC

VARIABLES
    \* ---- pure reduction functions (SpecPure) ----
    called,           \* the calls made so far
    dataArray,        \* the frequency snapshot handed to the functions
    snapshot0,        \* the snapshot as it was handed in (history)
    barCount,         \* requested number of bars
    normalized,       \* result of normalizeFrequencyData
    normalizedAgain,  \* result of a second normalizeFrequencyData call
    barData,          \* result of the hook's getBarData
    smoothed,         \* result of smoothArray, for each smoothing factor used
    smoothInput,      \* the array passed to smoothArray, as it is after the calls
    bassLevel,        \* result of getBassLevel
    trebleLevel,      \* result of getTrebleLevel
    \* ---- per-frame sampling loops (SpecLoops) ----
    comp,             \* the component that is mounted
    analyser,         \* the analyser ref of the component is set and usable
    analysing,        \* isAnalyzing (hook) / isInitialized (AudioVisualizer)
    hasTrack,         \* currentTrack (Mp3Player) / audioFile (page) is set
    isPlaying,        \* the isPlaying state or prop of the component
    pending,          \* animation-frame callbacks requested and not yet run
    frameRef,         \* animationFrameRef / animationRef / animationIdRef (0: null)
    nextId,           \* the id the next requestAnimationFrame call returns
    visualizerData,   \* page player: what visualizerData holds
    sampled,          \* the last step called getByteFrequencyData (history)
    stopped,          \* a pause was processed and playback not started since (history)
    \* ---- component lifecycle and owned resources ----
    mounted,          \* the component is mounted
    openContexts,     \* AudioContexts the component made that are not closed
    contextRef,       \* audioContextRef.current: "null", or the state of its context
    bound,            \* the audio element already feeds a MediaElementSource node
    bindSeen,         \* outcomes of the attempts to bind the element (history)
    bindKept,         \* no failed attempt issued a state update to isPlaying or
                      \* currentTrack (history)
    \* ---- tracks and player state ----
    currentTrack,     \* currentTrack (Mp3Player, useAudioPlayer) / audioFile (page)
    playlist,         \* Mp3Player: playlist
    currentTrackIndex,\* Mp3Player: currentTrackIndex
    endedClosure,     \* Mp3Player: playlist and index captured by the 'ended' listener
    accepted,         \* Mp3Player: the audio files uploaded so far, in order (history)
    urls,             \* object URLs created, each "live" or "revoked"
    error,            \* useAudioPlayer: error
    isLoading,        \* useAudioPlayer: isLoading
    volume,           \* useAudioPlayer: volume
    elementVolume,    \* useAudioPlayer: audioRef.current.volume
    elementPlaying,   \* useAudioPlayer: the audio element is playing
    audioRef,         \* useAudioPlayer: audioRef.current holds the audio element
    hadError,         \* useAudioPlayer: an error event was handled (history)
    lastOp,           \* useAudioPlayer: what ran last, when that is the 'error'
                      \* listener, loadTrack (its URL created, or its catch
                      \* taken) or a fulfilled play (history)
    \* ---- file validation (SpecFiles) ----
    file,             \* the argument of validateAudioFile
    validation,       \* the object validateAudioFile returned
    maxFileSize,      \* FileUpload: the maxFileSize prop of the current render
    mountMaxFileSize, \* FileUpload: the maxFileSize prop of the first render
    selectedFile,     \* FileUpload: selectedFile
    uploadError,      \* FileUpload: error
    lastPick,         \* FileUpload: the last pick or drop and what it did (history)
    \* ---- waveform reduction of the hook (SpecWave) ----
    waveformData,     \* the waveform snapshot the hook holds
    points,           \* the argument of getWaveformPoints
    wavePoints,       \* the array getWaveformPoints returned
    \* ---- local cache (SpecStorage) ----
    localStorage,     \* the stored items: key -> stored string
    storageAvailable, \* reading window.localStorage does not throw
    storedBefore,     \* the items stored when clearAudioCache was called (history)
    storageOp,        \* the storage function called last and what it returned (history)
    \* ---- PlaybackControls (SpecControls) ----
    isMuted,          \* PlaybackControls: isMuted
    isShuffled,       \* PlaybackControls: isShuffled
    repeatMode,       \* PlaybackControls: repeatMode
    endedListener,    \* the render whose handleEnded is registered on the element
    lastNav,          \* the track navigation handled last and its calls (history)
    lastVolumeOp,     \* toggleMute / handleVolumeChange: which ran last, and the
                      \* volume state before it (history)
    \* ---- async handlers ----
    awaiting          \* the handler calls suspended at an await

pureVars == <<called, dataArray, snapshot0, barCount, normalized, normalizedAgain,
              barData, smoothed, smoothInput, bassLevel, trebleLevel>>

loopVars == <<comp, analyser, analysing, hasTrack, isPlaying, pending, frameRef,
              nextId, visualizerData, sampled, stopped>>

ctxVars == <<openContexts, contextRef>>

bindVars == <<bound, bindSeen, bindKept>>

lifeVars == <<mounted, ctxVars, bindVars>>

trackVars == <<currentTrack, playlist, currentTrackIndex, endedClosure, accepted, urls>>

stateVars == <<error, isLoading, volume, elementVolume, elementPlaying, hadError,
               lastOp>>

playerVars == <<trackVars, stateVars>>

fileVars == <<file, validation, maxFileSize, mountMaxFileSize, selectedFile,
              uploadError, lastPick>>

waveVars == <<waveformData, points, wavePoints>>

storageVars == <<localStorage, storageAvailable, storedBefore, storageOp>>

controlVars == <<isMuted, isShuffled, repeatMode, endedListener, lastNav,
                 lastVolumeOp>>

\* the variables of the other specifications
restVars == <<waveVars, storageVars, controlVars>>

otherVars == <<restVars, awaiting>>

vars == <<pureVars, loopVars, lifeVars, playerVars, fileVars, audioRef, otherVars>>

\* ---------------------------------------------------------------------
\* Bounds of the model
\* ---------------------------------------------------------------------
MaxLen == 3        \* snapshots of every length 0..MaxLen are enumerated
MaxBarCount == 4   \* bar counts 1..MaxBarCount are enumerated
MaxSmoothLen == 3  \* smoothArray is applied to arrays of at most this length
MaxFrameId == 6    \* requestAnimationFrame hands out the ids 1..MaxFrameId
MaxContexts == 2   \* a component makes at most this many AudioContexts
MaxPick == 2       \* files in one selection of the file picker
MaxPlaylist == 3   \* tracks in the playlist
MaxWaveLen == 3    \* waveform patterns of every length 1..MaxWaveLen are enumerated
MaxPoints == 4     \* point counts 1..MaxPoints are enumerated
MaxAwaiting == 2   \* handler calls suspended at an await at one time
MaxLoads == 2      \* object URLs useAudioPlayer.loadTrack creates

\* ---------------------------------------------------------------------
\* JavaScript numbers: exact rationals n/d (d > 0, lowest terms), and the
\* non-finite values with d = 0: NaN (0/0), +Infinity (1/0), -Infinity.
\* ---------------------------------------------------------------------
RECURSIVE GCD(_, _)
GCD(a, b) == IF b = 0 THEN a ELSE GCD(b, a % b)

Abs(x) == IF x < 0 THEN -x ELSE x

Sign(x) == IF x > 0 THEN 1 ELSE IF x < 0 THEN -1 ELSE 0

NaN == [n |-> 0, d |-> 0]

Infinity(s) == [n |-> s, d |-> 0]

Rat(n, d) ==
    LET g == GCD(Abs(n), d)
    IN  [n |-> n \div g, d |-> d \div g]

Num(i) == [n |-> i, d |-> 1]

IsNaN(a) == a.d = 0 /\ a.n = 0

IsFinite(a) == a.d > 0

\* a / b
JsDiv(a, b) ==
    IF IsNaN(a) \/ IsNaN(b) THEN NaN
    ELSE IF ~IsFinite(a) THEN (IF ~IsFinite(b) THEN NaN
                               ELSE Infinity(a.n * (IF b.n < 0 THEN -1 ELSE 1)))
    ELSE IF ~IsFinite(b) THEN Num(0)
    ELSE IF b.n = 0 THEN (IF a.n = 0 THEN NaN ELSE Infinity(Sign(a.n)))
    ELSE Rat(a.n * b.d * Sign(b.n), a.d * Abs(b.n))

\* a * b
JsMul(a, b) ==
    IF IsNaN(a) \/ IsNaN(b) THEN NaN
    ELSE IF ~IsFinite(a) \/ ~IsFinite(b)
         THEN (IF a.n = 0 \/ b.n = 0 THEN NaN ELSE Infinity(Sign(a.n) * Sign(b.n)))
    ELSE Rat(a.n * b.n, a.d * b.d)

\* a + b
JsAdd(a, b) ==
    IF IsNaN(a) \/ IsNaN(b) THEN NaN
    ELSE IF ~IsFinite(a) /\ ~IsFinite(b) THEN (IF a.n = b.n THEN a ELSE NaN)
    ELSE IF ~IsFinite(a) THEN a
    ELSE IF ~IsFinite(b) THEN b
    ELSE Rat(a.n * b.d + b.n * a.d, a.d * b.d)

\* a < b for numbers other than NaN
JsLess(a, b) ==
    IF ~IsFinite(a) THEN a.n < 0 /\ (IsFinite(b) \/ b.n > 0)
    ELSE IF ~IsFinite(b) THEN b.n > 0
    ELSE a.n * b.d < b.n * a.d

\* Math.min(a, b) and Math.max(a, b): NaN when an argument is NaN
JsMin(a, b) == IF IsNaN(a) \/ IsNaN(b) THEN NaN ELSE IF JsLess(b, a) THEN b ELSE a

JsMax(a, b) == IF IsNaN(a) \/ IsNaN(b) THEN NaN ELSE IF JsLess(a, b) THEN b ELSE a

\* lo <= a <= hi for a finite number a and integers lo, hi
InRange(a, lo, hi) == IsFinite(a) /\ lo * a.d <= a.n /\ a.n <= hi * a.d

\* new Array(count).fill(v)
Fill(count, v) == [i \in 1..count |-> v]

\* ---------------------------------------------------------------------
\* normalizeFrequencyData (audio utilities)
\* ---------------------------------------------------------------------

\* Math.floor(dataArray.length / barCount)
ChunkSizeCeil(len, count) == (len + count - 1) \div count

ChunkSize(len, count) == len \div count

\* The indices j visited by  for (j = start; j < end && j < length; j++)
ChunkIndices(start, end, len) ==
    LET stop == IF end < len THEN end ELSE len
        iterations == IF stop > start THEN stop - start ELSE 0
    IN  [k \in 1..iterations |-> start + k - 1]

\* sum += dataArray[j] over the visited indices (arrays are 0-based in the code)
RECURSIVE SumBetween(_, _, _, _)
SumBetween(array, idx, lo, hi) ==
    IF lo > hi THEN 0
    ELSE IF lo = hi THEN array[idx[lo] + 1]
    ELSE LET mid == (lo + hi) \div 2
         IN  SumBetween(array, idx, lo, mid) + SumBetween(array, idx, mid + 1, hi)

SumAt(array, idx) == SumBetween(array, idx, 1, Len(idx))

\* The indices summed into bar i (0-based), as the two loops visit them
BarIndicesOffByOne(len, count, i) ==
    LET chunkSize == ChunkSize(len, count)
        start == i * chunkSize + 1
        end == start + chunkSize
    IN  ChunkIndices(start, end, len)

BarIndices(len, count, i) ==
    LET chunkSize == ChunkSize(len, count)
        start == i * chunkSize
        end == start + chunkSize
    IN  ChunkIndices(start, end, len)

\* One iteration of the outer loop: the value pushed for bar i
NormalizedBarUnscaled(array, count, i) ==
    LET chunkSize == ChunkSize(Len(array), count)
        sum == SumAt(array, BarIndices(Len(array), count, i))
    IN  JsDiv(Num(sum), Num(chunkSize))

NormalizedBar(array, count, i) ==
    LET chunkSize == ChunkSize(Len(array), count)
        sum == SumAt(array, BarIndices(Len(array), count, i))
        average == JsDiv(Num(sum), Num(chunkSize))
    IN  JsDiv(average, Num(255))

\* The arrays a call works on are kept in a store, one field per array (the
\* argument dataArray and the local array normalized), with the loop
\* variable i.
\* array.push(v): the named array grows by v, the other arrays stay
Push(store, name, v) == [store EXCEPT ![name] = Append(@, v)]

\* One iteration of the outer loop: the bar is computed from the argument as
\* the store holds it and pushed onto normalized; i++
NormalizeStep(store, count) ==
    [Push(store, "normalized", NormalizedBar(store.dataArray, count, store.i))
        EXCEPT !.i = @ + 1]

\* The iterations of the outer loop until i reaches hi, in order (the first
\* half of them, then the rest)
RECURSIVE NormalizeLoop(_, _, _)
NormalizeLoop(store, count, hi) ==
    IF store.i >= hi THEN store
    ELSE IF store.i + 1 = hi THEN NormalizeStep(store, count)
    ELSE NormalizeLoop(NormalizeLoop(store, count, (store.i + hi) \div 2), count, hi)

\* The whole call: the returned array, and the argument array after the call
normalizeFrequencyDataDestructive(array, count) ==
    LET entry == [dataArray |-> array, normalized |-> <<>>, i |-> 0]
        exit == IF Len(array) = 0 THEN entry ELSE NormalizeLoop(entry, count, count)
    IN  [result |-> IF Len(array) = 0 THEN Fill(count, Num(0)) ELSE exit.normalized,
         dataArray |-> [j \in 1..Len(array) |-> 0]]

normalizeFrequencyData(array, count) ==
    LET entry == [dataArray |-> array, normalized |-> <<>>, i |-> 0]
        exit == IF Len(array) = 0 THEN entry ELSE NormalizeLoop(entry, count, count)
    IN  [result |-> IF Len(array) = 0 THEN Fill(count, Num(0)) ELSE exit.normalized,
         dataArray |-> exit.dataArray]

\* ---------------------------------------------------------------------
\* useAudioVisualizer: getBarData, getBassLevel, getTrebleLevel
\* ---------------------------------------------------------------------
getBarData(frequencyData, count) ==
    IF Len(frequencyData) = 0 THEN Fill(count, Num(0))
    ELSE LET dataPoints == ChunkSize(Len(frequencyData), count)
         IN  [i \in 1..count |->
                JsDiv(Num(SumAt(frequencyData,
                                ChunkIndices((i - 1) * dataPoints,
                                             (i - 1) * dataPoints + dataPoints,
                                             Len(frequencyData)))),
                      Num(dataPoints))]

\* Math.floor(length * 0.1): the double nearest 0.1 lies above 1/10 and the
\* rounded product never falls below an integer quotient.
BassRangeFifth(len) == len \div 5

BassRange(len) == len \div 10

RECURSIVE Pow2Floor(_)
Pow2Floor(k) == IF k < 2 THEN 1 ELSE 2 * Pow2Floor(k \div 2)

\* Math.floor(length * 0.7): the double nearest 0.7 is 0.7 - 0.4 * 2^-53, so
\* for a length that is a multiple of 10 the product rounds to the double
\* below the integer 7*length/10 when 0.4 * length exceeds half an ulp.
TrebleStart(len) ==
    LET k == (7 * len) \div 10
    IN  IF len % 10 = 0 /\ len > 0 /\ 2 * len > 5 * Pow2Floor(k)
        THEN k - 1 ELSE k

getBassLevel(frequencyData) ==
    IF Len(frequencyData) = 0 THEN Num(0)
    ELSE LET bassRange == BassRange(Len(frequencyData))
             sum == SumAt(frequencyData, ChunkIndices(0, bassRange, bassRange))
         IN  JsDiv(Num(sum), Num(bassRange))

getTrebleLevel(frequencyData) ==
    IF Len(frequencyData) = 0 THEN Num(0)
    ELSE LET trebleStart == TrebleStart(Len(frequencyData))
             idx == ChunkIndices(trebleStart, Len(frequencyData), Len(frequencyData))
             sum == SumAt(frequencyData, idx)
             count == Len(idx)
         IN  IF count > 0 THEN JsDiv(Num(sum), Num(count)) ELSE Num(0)

\* ---------------------------------------------------------------------
\* smoothArray (audio utilities)
\* ---------------------------------------------------------------------
RECURSIVE SmoothLoopSwapped(_, _, _, _)
SmoothLoopSwapped(array, k, i, acc) ==
    IF i > Len(array) THEN acc
    ELSE SmoothLoopSwapped(array, k, i + 1,
            Append(acc, JsAdd(JsMul(array[i], k),
                              JsMul(acc[i - 1], JsAdd(Num(1), JsMul(Num(-1), k))))))

\* smoothed[i] = smoothed[i - 1] * k + array[i] * (1 - k), for i = 1..length-1
RECURSIVE SmoothLoop(_, _, _, _)
SmoothLoop(array, k, i, acc) ==
    IF i > Len(array) THEN acc
    ELSE SmoothLoop(array, k, i + 1,
            Append(acc, JsAdd(JsMul(acc[i - 1], k),
                              JsMul(array[i], JsAdd(Num(1), JsMul(Num(-1), k))))))

\* The returned array and the argument array after the call
smoothArraySwapped(array, k) ==
    [result |-> IF Len(array) = 0 THEN array
                ELSE SmoothLoopSwapped(array, k, 2, <<array[1]>>),
     array |-> array]

smoothArray(array, k) ==
    [result |-> IF Len(array) = 0 THEN array
                ELSE SmoothLoop(array, k, 2, <<array[1]>>),
     array |-> array]

\* ---------------------------------------------------------------------
\* Inputs of the reduction functions
\* ---------------------------------------------------------------------
BinValues == {0, 128, 255}

\* The snapshot of the specification's scenario
Scenario8 == <<0, 64, 128, 192, 255, 255, 192, 128>>

Ramp(n) == [i \in 1..n |-> (i * 37) % 256]

Zeros(n) == [i \in 1..n |-> 0]

Full(n) == [i \in 1..n |-> 255]

\* analyser.frequencyBinCount for fftSize 256, and the length of the arrays
\* the hook is made with: every snapshot the hook holds has this many bins
FrequencyBinCount == 128

\* Lengths of the longer snapshots
LongLens == {9, 10, 90, 100, FrequencyBinCount}

Snapshots ==
    UNION {[1..n -> BinValues] : n \in 0..MaxLen}
    \cup {Scenario8}
    \cup {Ramp(n) : n \in LongLens}
    \cup {Zeros(n) : n \in LongLens}
    \cup {Full(n) : n \in LongLens}

\* 64 and 32 are the defaults of normalizeFrequencyData and getBarData; the
\* last is a bar count above the number of bins the hook holds
BarCounts == 1..MaxBarCount \cup {32, 64, FrequencyBinCount + 1}

\* 0.3 is the default smoothing factor
SmoothingFactors == {Num(0), Rat(3, 10), Num(1)}

ToNums(array) == [i \in 1..Len(array) |-> Num(array[i])]

\* currentTrack === null
NoFile == [name |-> <<>>, type |-> <<"", "">>, size |-> 0]

NoTrack == [url |-> 0, file |-> NoFile]

\* the 'ended' listener registered while the playlist was empty
NoClosure == [playlist |-> <<>>, currentTrackIndex |-> 0]

\* 50 * 1024 * 1024, the default of the maxFileSize prop
DefaultMaxFileSize == 52428800

\* no pick or drop has been handled
NoPick == [file |-> NoFile, via |-> "none", maxFileSize |-> 0,
           selectedBefore |-> NoFile, calls |-> <<>>]

\* nothing was validated and no FileUpload is mounted
NoFiles ==
    /\ file = NoFile
    /\ validation = [valid |-> FALSE, error |-> "not called"]
    /\ maxFileSize = DefaultMaxFileSize
    /\ mountMaxFileSize = DefaultMaxFileSize
    /\ selectedFile = NoFile
    /\ uploadError = <<>>
    /\ lastPick = NoPick

\* the state of a freshly mounted player: no track, no URL, volume 1; the
\* consumer of useAudioPlayer has put the audio element into audioRef
NoTracks ==
    /\ currentTrack = NoTrack
    /\ playlist = <<>>
    /\ currentTrackIndex = 0
    /\ endedClosure = NoClosure
    /\ accepted = <<>>
    /\ urls = <<>>
    /\ error = "null"
    /\ isLoading = FALSE
    /\ volume = Num(1)
    /\ elementVolume = Num(1)
    /\ elementPlaying = FALSE
    /\ audioRef = (comp = "useAudioPlayer")
    /\ hadError = FALSE
    /\ lastOp = "none"

\* getWaveformPoints was not called
NoWave ==
    /\ waveformData = <<>>
    /\ points = 1
    /\ wavePoints = <<>>

\* no storage function was called on the empty storage
NoStorageOp == [op |-> "none", result |-> FALSE]

NoStorage ==
    /\ localStorage = {}
    /\ storageAvailable = TRUE
    /\ storedBefore = {}
    /\ storageOp = NoStorageOp

\* no track navigation was handled
NoNav == [via |-> "none", calls |-> <<>>, from |-> 0, length |-> 0,
          shuffled |-> FALSE, repeatMode |-> "none", restarted |-> FALSE,
          setIsPlaying |-> <<>>,
          before |-> [via |-> "none", from |-> 0, shuffled |-> FALSE]]

\* the handleEnded of the first render of PlaybackControls
FirstListener == [repeatMode |-> "none", currentTrackIndex |-> 0, length |-> 0,
                  isShuffled |-> FALSE]

\* neither toggleMute nor handleVolumeChange has run
NoVolumeOp == [op |-> "none", volumeBefore |-> Num(1)]

\* useState(false), useState(false), useState('none')
NoControls ==
    /\ isMuted = FALSE
    /\ isShuffled = FALSE
    /\ repeatMode = "none"
    /\ endedListener = FirstListener
    /\ lastNav = NoNav
    /\ lastVolumeOp = NoVolumeOp

\* no handler is suspended at an await
NoAwaiting == awaiting = <<>>

NoOthers ==
    /\ NoWave
    /\ NoStorage
    /\ NoControls
    /\ NoAwaiting

\* no component is mounted: the functions are called on their own
NoComponent ==
    /\ comp = "none"
    /\ analyser = FALSE
    /\ analysing = FALSE
    /\ hasTrack = FALSE
    /\ isPlaying = FALSE
    /\ pending = {}
    /\ frameRef = 0
    /\ nextId = 1
    /\ visualizerData = "zeros"
    /\ sampled = FALSE
    /\ stopped = FALSE
    /\ mounted = FALSE
    /\ openContexts = 0
    /\ contextRef = "null"
    /\ bound = FALSE
    /\ bindSeen = {}
    /\ bindKept = TRUE
    /\ NoTracks
    /\ NoFiles

InitPure ==
    /\ NoOthers
    /\ called = {}
    /\ dataArray \in Snapshots
    /\ snapshot0 = dataArray
    /\ barCount \in BarCounts
    /\ normalized = <<>>
    /\ normalizedAgain = <<>>
    /\ barData = <<>>
    /\ smoothed = <<>>
    /\ smoothInput = ToNums(dataArray)
    /\ bassLevel = Num(0)
    /\ trebleLevel = Num(0)
    /\ NoComponent

\* const bars = normalizeFrequencyData(dataArray, barCount)
CallNormalize ==
    /\ "normalize" \notin called
    /\ called' = called \cup {"normalize"}
    /\ LET r == normalizeFrequencyData(dataArray, barCount)
       IN  /\ normalized' = r.result
           /\ dataArray' = r.dataArray
    /\ UNCHANGED <<snapshot0, barCount, normalizedAgain, barData, smoothed,
                   smoothInput, bassLevel, trebleLevel>>
    /\ UNCHANGED <<loopVars, lifeVars, playerVars, fileVars, audioRef, otherVars>>

\* a second call with the same array object and bar count
CallNormalizeAgain ==
    /\ "normalize" \in called
    /\ "normalizeAgain" \notin called
    /\ called' = called \cup {"normalizeAgain"}
    /\ LET r == normalizeFrequencyData(dataArray, barCount)
       IN  /\ normalizedAgain' = r.result
           /\ dataArray' = r.dataArray
    /\ UNCHANGED <<snapshot0, barCount, normalized, barData, smoothed,
                   smoothInput, bassLevel, trebleLevel>>
    /\ UNCHANGED <<loopVars, lifeVars, playerVars, fileVars, audioRef, otherVars>>

\* the hook holding dataArray as frequencyData, which it does for snapshots
\* of FrequencyBinCount bins: getBarData(barCount)
CallGetBarData ==
    /\ Len(dataArray) = FrequencyBinCount
    /\ "getBarData" \notin called
    /\ called' = called \cup {"getBarData"}
    /\ barData' = getBarData(dataArray, barCount)
    /\ UNCHANGED <<dataArray, snapshot0, barCount, normalized, normalizedAgain,
                   smoothed, smoothInput, bassLevel, trebleLevel>>
    /\ UNCHANGED <<loopVars, lifeVars, playerVars, fileVars, audioRef, otherVars>>

\* smoothArray(raw, k) on the samples of a snapshot of at most MaxSmoothLen bins
CallSmooth ==
    /\ Len(smoothInput) > 0
    /\ Len(smoothInput) <= MaxSmoothLen
    /\ \E k \in SmoothingFactors :
          /\ k \notin DOMAIN smoothed
          /\ LET r == smoothArray(smoothInput, k)
             IN  /\ smoothed' = smoothed @@ (k :> r.result)
                 /\ smoothInput' = r.array
    /\ UNCHANGED <<called, dataArray, snapshot0, barCount, normalized,
                   normalizedAgain, barData, bassLevel, trebleLevel>>
    /\ UNCHANGED <<loopVars, lifeVars, playerVars, fileVars, audioRef, otherVars>>

\* the hook holding dataArray as frequencyData: getBassLevel()
CallGetBassLevel ==
    /\ Len(dataArray) = FrequencyBinCount
    /\ "getBassLevel" \notin called
    /\ called' = called \cup {"getBassLevel"}
    /\ bassLevel' = getBassLevel(dataArray)
    /\ UNCHANGED <<dataArray, snapshot0, barCount, normalized, normalizedAgain,
                   barData, smoothed, smoothInput, trebleLevel>>
    /\ UNCHANGED <<loopVars, lifeVars, playerVars, fileVars, audioRef, otherVars>>

\* the hook holding dataArray as frequencyData: getTrebleLevel()
CallGetTrebleLevel ==
    /\ Len(dataArray) = FrequencyBinCount
    /\ "getTrebleLevel" \notin called
    /\ called' = called \cup {"getTrebleLevel"}
    /\ trebleLevel' = getTrebleLevel(dataArray)
    /\ UNCHANGED <<dataArray, snapshot0, barCount, normalized, normalizedAgain,
                   barData, smoothed, smoothInput, bassLevel>>
    /\ UNCHANGED <<loopVars, lifeVars, playerVars, fileVars, audioRef, otherVars>>

NextPure ==
    \/ CallNormalize
    \/ CallNormalizeAgain
    \/ CallGetBarData
    \/ CallSmooth
    \/ CallGetBassLevel
    \/ CallGetTrebleLevel

SpecPure == InitPure /\ [][NextPure]_vars

\* ---------------------------------------------------------------------
\* Per-frame sampling loops.  One component is mounted in a behaviour.
\* A pending callback is a record: the id requestAnimationFrame returned
\* and the value of isPlaying its closure captured (the hook's callback
\* captures none: the field is TRUE).
\* ---------------------------------------------------------------------
Components == {"useAudioVisualizer", "Mp3Player", "AudioVisualizer", "MP3Player",
               "useAudioPlayer"}

NoPureCalls ==
    /\ called = {}
    /\ dataArray = <<>>
    /\ snapshot0 = <<>>
    /\ barCount = 1
    /\ normalized = <<>>
    /\ normalizedAgain = <<>>
    /\ barData = <<>>
    /\ smoothed = <<>>
    /\ smoothInput = <<>>
    /\ bassLevel = Num(0)
    /\ trebleLevel = Num(0)

\* cancelAnimationFrame(id)
Cancel(pend, id) == {f \in pend : f.id # id}

\* name = requestAnimationFrame(callback): the callback keeps its closure
Request(pend, id, closurePlaying) == pend \cup {[id |-> id, isPlaying |-> closurePlaying]}

\* The state after mounting.  useAudioVisualizer: initializeAudioContext ran
\* in the mount effect (the analyser exists unless the AudioContext could not
\* be made; isAnalyzing is set unless a step of the wiring threw).
\* Mp3Player: the mount effect made the context and the analyser, or failed.
\* AudioVisualizer, the page player and useAudioPlayer make theirs later; the
\* element useAudioPlayer hands to its caller may be bound by another owner.
InitLoops ==
    /\ NoPureCalls
    /\ NoOthers
    /\ comp \in Components
    /\ \/ /\ comp = "useAudioVisualizer"
          /\ \E wiring \in {<<TRUE, TRUE>>, <<TRUE, FALSE>>, <<FALSE, FALSE>>} :
                /\ analyser = wiring[1]
                /\ analysing = wiring[2]
       \/ /\ comp = "Mp3Player"
          /\ analyser \in BOOLEAN
          /\ analysing = FALSE
       \/ /\ comp \in {"AudioVisualizer", "MP3Player", "useAudioPlayer"}
          /\ analyser = FALSE
          /\ analysing = FALSE
    /\ mounted = TRUE
    /\ openContexts = (IF analyser THEN 1 ELSE 0)
    /\ contextRef = (IF analyser THEN "open" ELSE "null")
    /\ IF comp = "useAudioPlayer" THEN bound \in BOOLEAN
       ELSE bound = (comp = "useAudioVisualizer" /\ analyser)
    /\ bindSeen = {}
    /\ bindKept = TRUE
    /\ NoTracks
    /\ NoFiles
    /\ hasTrack = FALSE
    /\ isPlaying = FALSE
    /\ pending = {}
    /\ frameRef = 0
    /\ nextId = 1
    /\ visualizerData = "zeros"
    /\ sampled = FALSE
    /\ stopped = FALSE

\* ---- useAudioVisualizer ----

\* updateVisualization: sample, then request the next frame
updateVisualization(pend, ref, closurePlaying) ==
    IF ~analyser
    THEN [pending |-> pend, frameRef |-> ref, used |-> 0, sampled |-> FALSE]
    ELSE [pending |-> Request(pend, nextId, closurePlaying), frameRef |-> nextId,
          used |-> 1, sampled |-> TRUE]

\* startVisualization, as captured by the listeners (isAnalyzing of that render)
startVisualization(pend, ref) ==
    IF ~analyser \/ ~analysing
    THEN [pending |-> pend, frameRef |-> ref, used |-> 0, sampled |-> FALSE]
    ELSE updateVisualization(pend, ref, TRUE)

\* stopVisualization: cancel the frame the ref names and clear the ref
stopVisualization(pend, ref) ==
    IF ref # 0 THEN [pending |-> Cancel(pend, ref), frameRef |-> 0]
    ELSE [pending |-> pend, frameRef |-> ref]

\* 'play' listener: resumeAudioContext(); startVisualization()
HookHandlePlay ==
    /\ comp = "useAudioVisualizer"
    /\ mounted
    /\ nextId <= MaxFrameId
    /\ LET r == startVisualization(pending, frameRef)
       IN  /\ pending' = r.pending
           /\ frameRef' = r.frameRef
           /\ nextId' = nextId + r.used
           /\ sampled' = r.sampled
    /\ stopped' = FALSE
    /\ UNCHANGED <<pureVars, otherVars, fileVars, audioRef, lifeVars, playerVars, comp,
                   analyser, analysing, hasTrack, isPlaying, visualizerData>>

\* 'pause' and 'ended' listener: stopVisualization()
HookHandlePause ==
    /\ comp = "useAudioVisualizer"
    /\ mounted
    /\ LET r == stopVisualization(pending, frameRef)
       IN  /\ pending' = r.pending
           /\ frameRef' = r.frameRef
    /\ sampled' = FALSE
    /\ stopped' = TRUE
    /\ UNCHANGED <<pureVars, otherVars, fileVars, audioRef, lifeVars, playerVars, comp,
                   analyser, analysing, hasTrack, isPlaying, nextId, visualizerData>>

\* the browser runs one pending updateVisualization callback
HookFrame ==
    /\ comp = "useAudioVisualizer"
    /\ nextId <= MaxFrameId
    /\ \E f \in pending :
          LET r == updateVisualization(pending \ {f}, frameRef, f.isPlaying)
          IN  /\ pending' = r.pending
              /\ frameRef' = r.frameRef
              /\ nextId' = nextId + r.used
              /\ sampled' = r.sampled
    /\ UNCHANGED <<pureVars, otherVars, fileVars, audioRef, lifeVars, playerVars, comp,
                   analyser, analysing, hasTrack, isPlaying, visualizerData, stopped>>

\* unmount: the listeners are removed and cleanup runs: stopVisualization,
\* the context is closed unless closed already, the refs are cleared
HookUnmount ==
    /\ comp = "useAudioVisualizer"
    /\ mounted
    /\ mounted' = FALSE
    /\ LET r == stopVisualization(pending, frameRef)
       IN  /\ pending' = r.pending
           /\ frameRef' = r.frameRef
    /\ openContexts' = IF contextRef = "open" THEN openContexts - 1 ELSE openContexts
    /\ contextRef' = "null"
    /\ analyser' = FALSE
    /\ analysing' = FALSE
    /\ sampled' = FALSE
    /\ UNCHANGED <<pureVars, otherVars, fileVars, audioRef, playerVars, bindVars, comp,
                   hasTrack, isPlaying, nextId, visualizerData, stopped>>

\* cleanup, as returned by the hook and called by its user while the hook
\* stays mounted: stopVisualization, the context is closed unless closed
\* already, the refs are cleared, setIsAnalyzing(false); the listeners stay
HookCleanup ==
    /\ comp = "useAudioVisualizer"
    /\ mounted
    /\ LET r == stopVisualization(pending, frameRef)
       IN  /\ pending' = r.pending
           /\ frameRef' = r.frameRef
    /\ openContexts' = IF contextRef = "open" THEN openContexts - 1 ELSE openContexts
    /\ contextRef' = "null"
    /\ analyser' = FALSE
    /\ analysing' = FALSE
    /\ sampled' = FALSE
    /\ UNCHANGED <<pureVars, otherVars, fileVars, audioRef, playerVars, bindVars,
                   mounted, comp, hasTrack, isPlaying, nextId, visualizerData, stopped>>

\* ---- Mp3Player ----

\* updateVisualizerData of the render whose isPlaying is closurePlaying
updateVisualizerData(pend, ref, closurePlaying) ==
    [pending |-> IF closurePlaying THEN Request(pend, nextId, closurePlaying) ELSE pend,
     frameRef |-> IF closurePlaying THEN nextId ELSE ref,
     used |-> IF closurePlaying THEN 1 ELSE 0,
     sampled |-> analyser /\ closurePlaying]

\* the effect on [isPlaying], run after a render in which isPlaying is playing
IsPlayingEffect(pend, ref, playing) ==
    IF playing THEN updateVisualizerData(pend, ref, playing)
    ELSE [pending |-> IF ref # 0 THEN Cancel(pend, ref) ELSE pend,
          frameRef |-> ref, used |-> 0, sampled |-> FALSE]

\* audioContext.createMediaElementSource(element): the host throws
\* InvalidStateError when the element already feeds a source node
createMediaElementSource(isBound) == [thrown |-> isBound, bound |-> TRUE]

\* the effect on [currentTrack]: bind the audio element to the analyser inside
\* try/catch.  updates: the state setters the attempt called
ConnectEffectUncaught(track, context, hasAnalyser, isBound) ==
    IF track.url # 0 /\ context # "null" /\ hasAnalyser
    THEN LET source == createMediaElementSource(isBound)
         IN  [bound |-> source.bound,
              outcome |-> IF source.thrown THEN "thrown" ELSE "bound",
              updates |-> {}]
    ELSE [bound |-> isBound, outcome |-> "skipped", updates |-> {}]

ConnectEffect(track, context, hasAnalyser, isBound) ==
    IF track.url # 0 /\ context # "null" /\ hasAnalyser
    THEN LET source == createMediaElementSource(isBound)
         IN  [bound |-> source.bound,
              outcome |-> IF source.thrown THEN "caught" ELSE "bound",
              updates |-> {}]
    ELSE [bound |-> isBound, outcome |-> "skipped", updates |-> {}]

\* a bind attempt's trace in the history variables
BindNoted(r) ==
    /\ bound' = r.bound
    /\ bindSeen' = bindSeen \cup {r.outcome}
    /\ bindKept' = (bindKept /\ (r.outcome \in {"caught", "thrown"}
                                  => r.updates \cap {"isPlaying", "currentTrack"} = {}))

\* setCurrentTrack(track); setCurrentTrackIndex(index) and the re-render: when
\* currentTrack changed, the effects on [currentTrack] run: the 'ended'
\* listener is registered anew (capturing that render's playlist and index)
\* and the connect effect binds the element
SetCurrentTrack(track, index, renderPlaylist) ==
    /\ currentTrack' = track
    /\ currentTrackIndex' = index
    /\ hasTrack' = TRUE
    /\ IF track # currentTrack
       THEN /\ endedClosure' = [playlist |-> renderPlaylist, currentTrackIndex |-> index]
            /\ BindNoted(ConnectEffect(track, contextRef, analyser, bound))
       ELSE UNCHANGED <<endedClosure, bindVars>>

\* file.type.startsWith('audio/'), a declared type being <<major, minor>>
IsAudioFile(f) == f.type[1] = "audio"

\* the files of one selection in the file picker
PickableFiles ==
    { [name |-> <<"a", ".", "m", "p", "3">>, type |-> <<"audio", "mpeg">>, size |-> 1],
      [name |-> <<"b", ".", "w", "a", "v">>, type |-> <<"audio", "wav">>, size |-> 2],
      [name |-> <<"n", ".", "t", "x", "t">>, type |-> <<"text", "plain">>, size |-> 3] }

FileSelections == UNION {[1..n -> PickableFiles] : n \in 0..MaxPick}

\* audioFiles.map(...): one track per audio file, each with a fresh object URL
NewTracks(audioFiles, firstUrl) ==
    [i \in 1..Len(audioFiles) |-> [url |-> firstUrl + i - 1, file |-> audioFiles[i]]]

\* setPlaylist(prev => [...prev, ...newTracks])
PrependTracks(prev, newTracks) == newTracks \o prev

AppendTracks(prev, newTracks) == prev \o newTracks

\* handleFileUpload: the audio files of the selection become tracks at the end
\* of the playlist; the first becomes current when no track is
Mp3HandleFileUpload ==
    /\ comp = "Mp3Player"
    /\ mounted
    /\ \E files \in FileSelections :
          LET audioFiles == SelectSeq(files, IsAudioFile)
              newTracks == NewTracks(audioFiles, Len(urls) + 1)
          IN  /\ Len(playlist) + Len(audioFiles) <= MaxPlaylist
              /\ IF Len(audioFiles) > 0
                 THEN /\ urls' = urls \o [i \in 1..Len(audioFiles) |-> "live"]
                      /\ playlist' = AppendTracks(playlist, newTracks)
                      /\ accepted' = accepted \o audioFiles
                      /\ IF currentTrack = NoTrack
                         THEN SetCurrentTrack(newTracks[1], Len(playlist), playlist')
                         ELSE UNCHANGED <<currentTrack, currentTrackIndex, endedClosure,
                                          bindVars, hasTrack>>
                 ELSE UNCHANGED <<trackVars, bindVars, hasTrack>>
    /\ sampled' = FALSE
    /\ UNCHANGED <<pureVars, otherVars, fileVars, audioRef, stateVars, mounted, ctxVars,
                   comp, analyser, analysing, isPlaying, pending, frameRef, nextId,
                   visualizerData, stopped>>

\* an async handler suspended at an await: the await it waits at (stage), the
\* isPlaying of the render that made the handler, and whether the element
\* took up playback in audio.play() and no pause() or load() has rejected
\* the promise since
Continuation(stage, closurePlaying, started) ==
    [stage |-> stage, isPlaying |-> closurePlaying, started |-> started]

\* the place of a suspended call in awaiting
Rank(c) ==
    (IF c.stage = "setup" THEN 0 ELSE IF c.stage = "resume" THEN 1 ELSE 2) * 8
    + (IF c.isPlaying THEN 4 ELSE 0) + (IF c.started THEN 2 ELSE 0)

\* the suspended calls and c: which of them goes on next is the host's
\* choice, so they are kept by rank and not by age
Suspend(conts, c) ==
    LET before == Cardinality({j \in 1..Len(conts) : Rank(conts[j]) <= Rank(c)})
    IN  [j \in 1..(Len(conts) + 1) |->
            IF j <= before THEN conts[j]
            ELSE IF j = before + 1 THEN c ELSE conts[j - 1]]

\* the suspended calls without the i-th, which settles
Settle(conts, i) ==
    [j \in 1..(Len(conts) - 1) |-> IF j < i THEN conts[j] ELSE conts[j + 1]]

\* pause(), load() and a media error reject the play() promises that are
\* still pending (stillPending); promises fulfilled before stay so
AbortPlays(conts, stillPending) ==
    [j \in 1..Len(conts) |->
        IF stillPending /\ conts[j].stage = "play"
        THEN [conts[j] EXCEPT !.started = FALSE] ELSE conts[j]]

\* the state of a resumable context: await resume() suspends the handler only
\* when it is 'suspended', and no context means no await
ResumeAwaited == {s \in BOOLEAN : s => contextRef = "open"}

\* setIsPlaying(value) and the re-render: the isPlaying effect runs when that
\* changes isPlaying
Mp3SetIsPlaying(value) ==
    /\ isPlaying' = value
    /\ LET r == IF value # isPlaying THEN IsPlayingEffect(pending, frameRef, value)
                ELSE [pending |-> pending, frameRef |-> frameRef, used |-> 0,
                      sampled |-> FALSE]
       IN  /\ pending' = r.pending
           /\ frameRef' = r.frameRef
           /\ nextId' = nextId + r.used
           /\ sampled' = r.sampled
    /\ stopped' = ~value

\* a step of togglePlayPause that updates no state
Mp3NoUpdate ==
    /\ sampled' = FALSE
    /\ UNCHANGED <<isPlaying, pending, frameRef, nextId, stopped>>

\* togglePlayPause from `if (isPlaying)` on, in the render whose isPlaying is
\* closurePlaying: pause() and setIsPlaying(false), or play() and the await
\* of its promise (rest: the calls suspended otherwise)
Mp3PauseOrPlay(closurePlaying, rest) ==
    IF closurePlaying
    THEN /\ Mp3SetIsPlaying(FALSE)
         /\ awaiting' = rest
    ELSE /\ Len(rest) < MaxAwaiting
         /\ awaiting' = Suspend(rest, Continuation("play", closurePlaying, TRUE))
         /\ sampled' = FALSE
         /\ stopped' = FALSE
         /\ UNCHANGED <<isPlaying, pending, frameRef, nextId>>

\* togglePlayPause of the current render, up to its first await: a suspended
\* context is resumed first; then pause() with setIsPlaying(false), or play()
Mp3TogglePlayPause ==
    /\ comp = "Mp3Player"
    /\ mounted
    /\ hasTrack
    /\ nextId <= MaxFrameId
    /\ \E suspended \in ResumeAwaited :
          IF suspended
          THEN /\ Len(awaiting) < MaxAwaiting
               /\ awaiting' = Suspend(awaiting, Continuation("resume", isPlaying, FALSE))
               /\ Mp3NoUpdate
          ELSE Mp3PauseOrPlay(isPlaying, awaiting)
    /\ UNCHANGED <<pureVars, restVars, fileVars, audioRef, lifeVars, playerVars, comp,
                   analyser, analysing, hasTrack, visualizerData>>

\* a suspended togglePlayPause goes on: after resume(), pause or play of its
\* render; after play(), setIsPlaying(!isPlaying) of its render, the re-render
\* and the isPlaying effect.  A rejected promise ends in the catch; after the
\* unmount the audio ref is null and the state updates are dropped.
Mp3TogglePlayPauseSettled ==
    /\ comp = "Mp3Player"
    /\ nextId <= MaxFrameId
    /\ \E i \in 1..Len(awaiting), resolved \in BOOLEAN :
          LET c == awaiting[i]
              rest == Settle(awaiting, i)
          IN  IF ~resolved \/ ~mounted
              THEN /\ awaiting' = rest
                   /\ Mp3NoUpdate
              ELSE IF c.stage = "resume"
              THEN Mp3PauseOrPlay(c.isPlaying, rest)
              ELSE /\ Mp3SetIsPlaying(~c.isPlaying)
                   /\ awaiting' = rest
    /\ UNCHANGED <<pureVars, restVars, fileVars, audioRef, lifeVars, playerVars, comp,
                   analyser, analysing, hasTrack, visualizerData>>

\* setIsPlaying(false) and the re-render: the isPlaying effect runs when that
\* changes isPlaying
SetIsPlayingFalse ==
    /\ mounted
    /\ isPlaying' = FALSE
    /\ LET r == IF isPlaying THEN IsPlayingEffect(pending, frameRef, FALSE)
                ELSE [pending |-> pending, frameRef |-> frameRef]
       IN  /\ pending' = r.pending
           /\ frameRef' = r.frameRef
    /\ sampled' = FALSE
    /\ stopped' = TRUE
    /\ UNCHANGED <<pureVars, otherVars, fileVars, audioRef, stateVars, mounted, ctxVars,
                   comp, analyser, analysing, nextId, visualizerData>>

\* playNext of a render whose playlist and currentTrackIndex are list and index
\* (the playlist of the coming render is playlist)
playNext(list, index) ==
    IF Len(list) = 0 THEN UNCHANGED <<currentTrack, currentTrackIndex, endedClosure,
                                      bindVars, hasTrack>>
    ELSE LET nextIndex == (index + 1) % Len(list)
         IN  SetCurrentTrack(list[nextIndex + 1], nextIndex, playlist)

\* playPrevious of the current render
playPrevious(list, index) ==
    IF Len(list) = 0 THEN UNCHANGED <<currentTrack, currentTrackIndex, endedClosure,
                                      bindVars, hasTrack>>
    ELSE LET prevIndex == IF index = 0 THEN Len(list) - 1 ELSE index - 1
         IN  SetCurrentTrack(list[prevIndex + 1], prevIndex, playlist)

\* 'ended' listener: setIsPlaying(false); playNext() of the render in which
\* the listener was registered
Mp3HandleEnded ==
    /\ comp = "Mp3Player"
    /\ hasTrack
    /\ SetIsPlayingFalse
    /\ playNext(endedClosure.playlist, endedClosure.currentTrackIndex)
    /\ UNCHANGED <<playlist, accepted, urls>>

\* playNext (button): the next track becomes current, setIsPlaying(false)
Mp3PlayNext ==
    /\ comp = "Mp3Player"
    /\ hasTrack
    /\ SetIsPlayingFalse
    /\ playNext(playlist, currentTrackIndex)
    /\ UNCHANGED <<playlist, accepted, urls>>

\* playPrevious (button): the previous track becomes current, setIsPlaying(false)
Mp3PlayPrevious ==
    /\ comp = "Mp3Player"
    /\ hasTrack
    /\ SetIsPlayingFalse
    /\ playPrevious(playlist, currentTrackIndex)
    /\ UNCHANGED <<playlist, accepted, urls>>

\* click on a playlist entry: that track becomes current, setIsPlaying(false)
Mp3PlaylistClick ==
    /\ comp = "Mp3Player"
    /\ hasTrack
    /\ SetIsPlayingFalse
    /\ \E index \in 0..(Len(playlist) - 1) :
          SetCurrentTrack(playlist[index + 1], index, playlist)
    /\ UNCHANGED <<playlist, accepted, urls>>

\* the browser runs one pending updateVisualizerData callback
Mp3Frame ==
    /\ comp = "Mp3Player"
    /\ nextId <= MaxFrameId
    /\ \E f \in pending :
          LET r == updateVisualizerData(pending \ {f}, frameRef, f.isPlaying)
          IN  /\ pending' = r.pending
              /\ frameRef' = r.frameRef
              /\ nextId' = nextId + r.used
              /\ sampled' = r.sampled
    /\ UNCHANGED <<pureVars, otherVars, fileVars, audioRef, lifeVars, playerVars, comp,
                   analyser, analysing, hasTrack, isPlaying, visualizerData, stopped>>

\* unmount: the mount effect's cleanup closes the context and cancels the
\* frame animationRef names
Mp3Unmount ==
    /\ comp = "Mp3Player"
    /\ mounted
    /\ mounted' = FALSE
    /\ openContexts' = IF contextRef = "open" THEN openContexts - 1 ELSE openContexts
    /\ contextRef' = IF contextRef = "open" THEN "closed" ELSE contextRef
    /\ pending' = IF frameRef # 0 THEN Cancel(pending, frameRef) ELSE pending
    /\ sampled' = FALSE
    /\ UNCHANGED <<pureVars, otherVars, fileVars, audioRef, playerVars, bindVars, comp,
                   analyser, analysing, hasTrack, isPlaying, frameRef, nextId,
                   visualizerData, stopped>>

\* ---- AudioVisualizer ----

\* draw of the render whose isPlaying is closurePlaying
draw(pend, ref, closurePlaying) ==
    IF ~analyser
    THEN [pending |-> pend, frameRef |-> ref, used |-> 0, sampled |-> FALSE]
    ELSE [pending |-> IF closurePlaying THEN Request(pend, nextId, closurePlaying) ELSE pend,
          frameRef |-> IF closurePlaying THEN nextId ELSE ref,
          used |-> IF closurePlaying THEN 1 ELSE 0,
          sampled |-> TRUE]

\* the effect on [isPlaying, isInitialized, draw]: the cleanup of its previous
\* run, then its body for the new isPlaying and isInitialized
PlayPauseEffect(pend, ref, playing, initialized) ==
    LET cleaned == IF ref # 0 THEN Cancel(pend, ref) ELSE pend
    IN  IF ~initialized
        THEN [pending |-> cleaned, frameRef |-> ref, used |-> 0, sampled |-> FALSE]
        ELSE IF playing THEN draw(cleaned, ref, playing)
        ELSE [pending |-> cleaned, frameRef |-> 0, used |-> 0, sampled |-> FALSE]

\* the effect on [audioElement, initializeAudioContext, isInitialized] with an
\* audio element given or changed: initializeAudioContext succeeding (the new
\* context replaces the one the ref held), the re-render and the play/pause
\* effect
AvInitializeAudioContext ==
    /\ comp = "AudioVisualizer"
    /\ mounted
    /\ ~analysing
    /\ nextId <= MaxFrameId
    /\ openContexts < MaxContexts
    /\ openContexts' = openContexts + 1
    /\ contextRef' = "open"
    /\ analyser' = TRUE
    /\ analysing' = TRUE
    /\ LET r == [pending |-> pending, frameRef |-> frameRef, used |-> 0, sampled |-> FALSE]
           e == IF isPlaying
                THEN [pending |-> Request(pending, nextId, TRUE), frameRef |-> nextId,
                      used |-> 1, sampled |-> TRUE]
                ELSE r
       IN  /\ pending' = e.pending
           /\ frameRef' = e.frameRef
           /\ nextId' = nextId + e.used
           /\ sampled' = e.sampled
    /\ bound' = TRUE
    /\ bindSeen' = bindSeen \cup {"bound"}
    /\ UNCHANGED <<pureVars, otherVars, fileVars, audioRef, playerVars, mounted,
                   bindKept, comp, hasTrack, isPlaying, visualizerData, stopped>>

\* the same effect with initializeAudioContext throwing after the context was
\* made (createMediaElementSource or connect): caught and logged; the data
\* array is not made and isInitialized stays false
AvInitializeAudioContextFails ==
    /\ comp = "AudioVisualizer"
    /\ mounted
    /\ ~analysing
    /\ openContexts < MaxContexts
    /\ openContexts' = openContexts + 1
    /\ contextRef' = "open"
    /\ sampled' = FALSE
    /\ bound' = TRUE
    /\ bindSeen' = bindSeen \cup {"caught"}
    /\ UNCHANGED <<pureVars, otherVars, fileVars, audioRef, playerVars, mounted,
                   bindKept, comp, analyser, analysing, hasTrack, isPlaying, pending,
                   frameRef, nextId, visualizerData, stopped>>

\* unmount: the cleanup of the play/pause effect and the unmount cleanup
AvUnmount ==
    /\ comp = "AudioVisualizer"
    /\ mounted
    /\ mounted' = FALSE
    /\ pending' = IF frameRef # 0 THEN Cancel(pending, frameRef) ELSE pending
    /\ openContexts' = IF contextRef = "open" THEN openContexts - 1 ELSE openContexts
    /\ contextRef' = IF contextRef = "open" THEN "closed" ELSE contextRef
    /\ sampled' = FALSE
    /\ UNCHANGED <<pureVars, otherVars, fileVars, audioRef, playerVars, bindVars, comp,
                   analyser, analysing, hasTrack, isPlaying, frameRef, nextId,
                   visualizerData, stopped>>

\* the parent changes the isPlaying prop: re-render and the play/pause effect
AvSetIsPlaying ==
    /\ comp = "AudioVisualizer"
    /\ mounted
    /\ nextId <= MaxFrameId
    /\ isPlaying' = ~isPlaying
    /\ LET r == PlayPauseEffect(pending, frameRef, ~isPlaying, analysing)
       IN  /\ pending' = r.pending
           /\ frameRef' = r.frameRef
           /\ nextId' = nextId + r.used
           /\ sampled' = r.sampled
    /\ stopped' = isPlaying
    /\ UNCHANGED <<pureVars, otherVars, fileVars, audioRef, lifeVars, playerVars, comp,
                   analyser, analysing, hasTrack, visualizerData>>

\* the browser runs one pending draw callback
AvFrame ==
    /\ comp = "AudioVisualizer"
    /\ nextId <= MaxFrameId
    /\ \E f \in pending :
          LET r == draw(pending \ {f}, frameRef, f.isPlaying)
          IN  /\ pending' = r.pending
              /\ frameRef' = r.frameRef
              /\ nextId' = nextId + r.used
              /\ sampled' = r.sampled
    /\ UNCHANGED <<pureVars, otherVars, fileVars, audioRef, lifeVars, playerVars, comp,
                   analyser, analysing, hasTrack, isPlaying, visualizerData, stopped>>

\* ---- page-level MP3Player ----

\* animate, defined by startVisualizer of the render whose isPlaying is
\* closurePlaying
animate(pend, ref, closurePlaying) ==
    IF ~closurePlaying
    THEN [pending |-> pend, frameRef |-> ref, used |-> 0, sampled |-> FALSE]
    ELSE [pending |-> Request(pend, nextId, closurePlaying), frameRef |-> nextId,
          used |-> 1, sampled |-> TRUE]

\* startVisualizer of the render whose isPlaying is closurePlaying, with the
\* analyzer ref as it is when called
startVisualizer(pend, ref, analyzerSet, closurePlaying) ==
    IF ~analyzerSet
    THEN [pending |-> pend, frameRef |-> ref, used |-> 0, sampled |-> FALSE]
    ELSE animate(pend, ref, closurePlaying)

\* handleFileUpload with an audio file: a fresh object URL becomes audioFile
PageHandleFileUpload ==
    /\ comp = "MP3Player"
    /\ mounted
    /\ Len(urls) < MaxPlaylist
    /\ \E picked \in {f \in PickableFiles : IsAudioFile(f)} :
          currentTrack' = [url |-> Len(urls) + 1, file |-> picked]
    /\ urls' = Append(urls, "live")
    /\ hasTrack' = TRUE
    /\ isPlaying' = FALSE
    /\ sampled' = FALSE
    /\ stopped' = TRUE
    /\ UNCHANGED <<pureVars, otherVars, fileVars, audioRef, lifeVars, stateVars,
                   playlist, currentTrackIndex, endedClosure, accepted, comp, analyser,
                   analysing, pending, frameRef, nextId, visualizerData>>

\* togglePlay of the current render, up to its first await: pause, or the
\* body of setupAudioContext, whose promise is then awaited (contextMade:
\* whether setupAudioContext gets an analyser when none exists yet)
PageTogglePlay ==
    /\ comp = "MP3Player"
    /\ mounted
    /\ hasTrack
    /\ IF isPlaying
       THEN /\ isPlaying' = FALSE
            /\ pending' = IF frameRef # 0 THEN Cancel(pending, frameRef) ELSE pending
            /\ stopped' = TRUE
            /\ UNCHANGED <<analyser, openContexts, contextRef, bound, bindSeen, awaiting>>
       ELSE \E contextMade \in BOOLEAN :
            /\ Len(awaiting) < MaxAwaiting
            /\ analyser' = (analyser \/ contextMade)
            /\ contextRef' = IF contextRef = "null" /\ contextMade THEN "open"
                             ELSE contextRef
            /\ openContexts' = IF contextRef = "null" /\ contextMade
                               THEN openContexts + 1 ELSE openContexts
            /\ bound' = (bound \/ (contextRef = "null" /\ contextMade))
            /\ bindSeen' = IF contextRef # "null" THEN bindSeen \cup {"skipped"}
                           ELSE IF contextMade THEN bindSeen \cup {"bound"}
                           ELSE bindSeen
            /\ awaiting' = Suspend(awaiting, Continuation("setup", isPlaying, FALSE))
            /\ UNCHANGED <<isPlaying, pending, stopped>>
    /\ sampled' = FALSE
    /\ UNCHANGED <<pureVars, restVars, fileVars, audioRef, playerVars, mounted,
                   bindKept, comp, analysing, hasTrack, frameRef, nextId,
                   visualizerData>>

\* a suspended togglePlay goes on: after setupAudioContext a suspended
\* context is resumed; then audio.play(), setIsPlaying(true) and
\* startVisualizer() of the render that made the handler.  A rejected resume()
\* ends the handler, and so does the null audio ref after the unmount.
PageTogglePlaySettled ==
    /\ comp = "MP3Player"
    /\ nextId <= MaxFrameId
    /\ \E i \in 1..Len(awaiting), suspended \in ResumeAwaited, resolved \in BOOLEAN :
          LET c == awaiting[i]
              rest == Settle(awaiting, i)
          IN  IF c.stage = "setup" /\ suspended
              THEN /\ awaiting' = Suspend(rest, Continuation("resume", c.isPlaying, FALSE))
                   /\ sampled' = FALSE
                   /\ UNCHANGED <<isPlaying, pending, frameRef, nextId, visualizerData,
                                  stopped>>
              ELSE IF (c.stage = "resume" /\ ~resolved) \/ ~mounted
              THEN /\ awaiting' = rest
                   /\ sampled' = FALSE
                   /\ UNCHANGED <<isPlaying, pending, frameRef, nextId, visualizerData,
                                  stopped>>
              ELSE /\ awaiting' = rest
                   /\ isPlaying' = TRUE
                   /\ LET r == startVisualizer(pending, frameRef, analyser, c.isPlaying)
                      IN  /\ pending' = r.pending
                          /\ frameRef' = r.frameRef
                          /\ nextId' = nextId + r.used
                          /\ sampled' = r.sampled
                          /\ visualizerData' = IF r.sampled THEN "snapshot"
                                               ELSE visualizerData
                   /\ stopped' = FALSE
    /\ UNCHANGED <<pureVars, restVars, fileVars, audioRef, playerVars, lifeVars, comp,
                   analyser, analysing, hasTrack>>

\* 'ended' listener: setIsPlaying(false)
PageEnded ==
    /\ comp = "MP3Player"
    /\ mounted
    /\ isPlaying
    /\ isPlaying' = FALSE
    /\ sampled' = FALSE
    /\ stopped' = TRUE
    /\ UNCHANGED <<pureVars, otherVars, fileVars, audioRef, lifeVars, playerVars, comp,
                   analyser, analysing, hasTrack, pending, frameRef, nextId,
                   visualizerData>>

\* unmount: the listener effect's cleanup; nothing cancels a frame, closes the
\* context or releases the file's URL
PageUnmount ==
    /\ comp = "MP3Player"
    /\ mounted
    /\ mounted' = FALSE
    /\ sampled' = FALSE
    /\ UNCHANGED <<pureVars, otherVars, fileVars, audioRef, playerVars, ctxVars,
                   bindVars, comp, analyser, analysing, hasTrack, isPlaying, pending,
                   frameRef, nextId, visualizerData, stopped>>

\* ---- useAudioPlayer ----

\* initializeAudioContext, called by play: skipped when a context exists or
\* audioRef holds no element; otherwise the context and the analyser are made
\* and the element is bound (constructed: whether new AudioContext()
\* returns).  Any throw is caught and reported with setError.
PlayerInitializeAudioContext(context, hasAnalyser, isBound, constructed) ==
    IF context # "null" \/ ~audioRef
    THEN [contextRef |-> context, made |-> 0, analyser |-> hasAnalyser,
          bound |-> isBound, outcome |-> "skipped", updates |-> {}, failed |-> FALSE]
    ELSE IF ~constructed
    THEN [contextRef |-> context, made |-> 0, analyser |-> hasAnalyser,
          bound |-> isBound, outcome |-> "none", updates |-> {"error"}, failed |-> TRUE]
    ELSE LET source == createMediaElementSource(isBound)
         IN  IF source.thrown
             THEN [contextRef |-> "open", made |-> 1, analyser |-> TRUE,
                   bound |-> source.bound, outcome |-> "caught",
                   updates |-> {"error"}, failed |-> TRUE]
             ELSE [contextRef |-> "open", made |-> 1, analyser |-> TRUE,
                   bound |-> source.bound, outcome |-> "bound",
                   updates |-> {}, failed |-> FALSE]

\* the cleanup of the effect on [currentTrack], run when currentTrack changes
\* and on unmount: the context the ref holds is closed (the ref keeps it) and
\* the URL of the track of that render is revoked
PlayerCleanup(track, urlsNow) ==
    /\ openContexts' = IF contextRef = "open" THEN openContexts - 1 ELSE openContexts
    /\ contextRef' = IF contextRef = "open" THEN "closed" ELSE contextRef
    /\ urls' = IF track.url # 0 THEN [urlsNow EXCEPT ![track.url] = "revoked"]
               ELSE urlsNow

\* the values loadTrack is called with: a File of the picker, or a truthy
\* value that is no Blob (a path string, a track object)
LoadTrackArguments ==
    {[isBlob |-> TRUE, file |-> f] : f \in PickableFiles}
        \cup {[isBlob |-> FALSE, file |-> NoFile]}

\* URL.createObjectURL(value): a fresh URL for a Blob, a TypeError for any
\* other value
createObjectURL(value, urlsNow) ==
    IF value.isBlob
    THEN [thrown |-> FALSE, url |-> Len(urlsNow) + 1, urls |-> Append(urlsNow, "live")]
    ELSE [thrown |-> TRUE, url |-> 0, urls |-> urlsNow]

\* loadTrack(file) with a truthy argument: setIsLoading(true), setError(null);
\* the fresh URL becomes the source of the element audioRef holds (load()
\* stops the element) and setCurrentTrack makes the track current, which runs
\* the effect cleanup of the previous render; a throw of createObjectURL ends
\* in the catch, setError('Failed to load audio file'); finally
\* setIsLoading(false).  After the unmount the state updates are dropped.
PlayerLoadTrack ==
    /\ comp = "useAudioPlayer"
    /\ \E value \in LoadTrackArguments, stillPending \in BOOLEAN :
          LET created == createObjectURL(value, urls)
              loaded == ~created.thrown /\ audioRef
              rendered == ~created.thrown /\ mounted
          IN  /\ value.isBlob => Len(urls) < MaxLoads
              /\ IF rendered
                 THEN /\ currentTrack' = [url |-> created.url, file |-> value.file]
                      /\ PlayerCleanup(currentTrack, created.urls)
                 ELSE /\ urls' = created.urls
                      /\ UNCHANGED <<currentTrack, ctxVars>>
              /\ hasTrack' = (hasTrack \/ rendered)
              /\ elementPlaying' = (elementPlaying /\ ~loaded)
              /\ awaiting' = IF loaded THEN AbortPlays(awaiting, stillPending)
                             ELSE awaiting
              /\ isLoading' = (isLoading /\ ~mounted)
              /\ error' = IF ~mounted THEN error
                          ELSE IF created.thrown THEN "Failed to load audio file"
                          ELSE "null"
              /\ lastOp' = IF ~mounted THEN lastOp
                           ELSE IF created.thrown THEN "loadTrackFailed"
                           ELSE "loadTrack"
    /\ sampled' = FALSE
    /\ UNCHANGED <<pureVars, restVars, fileVars, audioRef, mounted, bindVars, playlist,
                   currentTrackIndex, endedClosure, accepted, volume, elementVolume,
                   hadError, comp, analyser, analysing, isPlaying, pending, frameRef,
                   nextId, visualizerData, stopped>>

\* audio.play() and the await of its promise (started: whether the element
\* takes up playback; it does not when the host refuses to play)
PlayerAudioPlay(rest, started) ==
    /\ awaiting' = Suspend(rest, Continuation("play", FALSE, started))
    /\ elementPlaying' = (elementPlaying \/ started)

\* the catch of play: setError('Failed to play audio'), dropped after the
\* unmount
PlayerPlayRejected ==
    /\ error' = IF mounted THEN "Failed to play audio" ELSE error
    /\ lastOp' = IF mounted THEN "other" ELSE lastOp
    /\ UNCHANGED <<elementPlaying, isPlaying, ctxVars, analyser, bindVars>>

\* play() with an element in audioRef and a current track, up to its first
\* await: a suspended context is resumed first; then audio.play()
PlayerPlay ==
    /\ comp = "useAudioPlayer"
    /\ audioRef
    /\ currentTrack # NoTrack
    /\ Len(awaiting) < MaxAwaiting
    /\ \E suspended \in ResumeAwaited, started \in BOOLEAN :
          IF suspended
          THEN /\ awaiting' = Suspend(awaiting, Continuation("resume", FALSE, FALSE))
               /\ UNCHANGED elementPlaying
          ELSE PlayerAudioPlay(awaiting, started)
    /\ lastOp' = IF mounted THEN "other" ELSE lastOp
    /\ sampled' = FALSE
    /\ UNCHANGED <<pureVars, restVars, fileVars, audioRef, lifeVars, trackVars, error,
                   isLoading, volume, elementVolume, hadError, comp, analyser,
                   analysing, hasTrack, isPlaying, pending, frameRef, nextId,
                   visualizerData, stopped>>

\* a suspended play() goes on: after resume(), audio.play() (a TypeError
\* when audioRef holds no element any more); after a fulfilled audio.play(),
\* setIsPlaying(true) and initializeAudioContext(); a rejected promise or a
\* throw ends in the catch.  After the unmount the state updates are dropped
\* and the refs are used as before.
PlayerPlaySettled ==
    /\ comp = "useAudioPlayer"
    /\ \E i \in 1..Len(awaiting), resolved \in BOOLEAN, started \in BOOLEAN,
          constructed \in BOOLEAN :
          LET c == awaiting[i]
              rest == Settle(awaiting, i)
              fulfilled == IF c.stage = "play" THEN c.started
                           ELSE resolved /\ audioRef
          IN  IF ~fulfilled
              THEN /\ awaiting' = rest
                   /\ PlayerPlayRejected
              ELSE IF c.stage = "resume"
              THEN /\ PlayerAudioPlay(rest, started)
                   /\ UNCHANGED <<isPlaying, ctxVars, analyser, bindVars, error, lastOp>>
              ELSE LET r == PlayerInitializeAudioContext(contextRef, analyser, bound,
                                                        constructed)
                   IN  /\ openContexts + r.made <= MaxContexts
                       /\ awaiting' = rest
                       /\ isPlaying' = (isPlaying \/ mounted)
                       /\ contextRef' = r.contextRef
                       /\ openContexts' = openContexts + r.made
                       /\ analyser' = r.analyser
                       /\ bound' = r.bound
                       /\ bindSeen' = IF r.outcome = "none" THEN bindSeen
                                      ELSE bindSeen \cup {r.outcome}
                       /\ bindKept' = (bindKept /\ (r.failed
                                          => r.updates \cap {"isPlaying", "currentTrack"} = {}))
                       /\ error' = IF mounted /\ "error" \in r.updates
                                   THEN "Failed to initialize audio visualizer" ELSE error
                       /\ lastOp' = IF ~mounted THEN lastOp
                                    ELSE IF r.failed THEN "playAnalyserFailed" ELSE "play"
                       /\ UNCHANGED elementPlaying
    /\ sampled' = FALSE
    /\ UNCHANGED <<pureVars, restVars, fileVars, audioRef, mounted, trackVars,
                   isLoading, volume, elementVolume, hadError, comp, analysing,
                   hasTrack, pending, frameRef, nextId, visualizerData, stopped>>

\* pause() with an element in audioRef: audio.pause(); setIsPlaying(false),
\* dropped after the unmount
PlayerPause ==
    /\ comp = "useAudioPlayer"
    /\ audioRef
    /\ elementPlaying' = FALSE
    /\ isPlaying' = (isPlaying /\ ~mounted)
    /\ \E stillPending \in BOOLEAN : awaiting' = AbortPlays(awaiting, stillPending)
    /\ lastOp' = IF mounted THEN "other" ELSE lastOp
    /\ sampled' = FALSE
    /\ UNCHANGED <<pureVars, restVars, fileVars, audioRef, lifeVars, trackVars, error,
                   isLoading, volume, elementVolume, hadError, comp, analyser,
                   analysing, hasTrack, pending, frameRef, nextId, visualizerData,
                   stopped>>

\* 'ended' listener: setIsPlaying(false); setCurrentTime(0).  The element
\* fires 'ended' when the position reaches the end, in playback or by a seek
\* (seekTo) on a stopped element
PlayerHandleEnded ==
    /\ comp = "useAudioPlayer"
    /\ mounted
    /\ currentTrack # NoTrack
    /\ elementPlaying' = FALSE
    /\ isPlaying' = FALSE
    /\ lastOp' = "other"
    /\ sampled' = FALSE
    /\ UNCHANGED <<pureVars, otherVars, fileVars, audioRef, lifeVars, trackVars, error,
                   isLoading, volume, elementVolume, hadError, comp, analyser,
                   analysing, hasTrack, pending, frameRef, nextId, visualizerData,
                   stopped>>

\* the state updates of the 'error' listener
handleErrorKeepsPlaying == [error |-> "Error playing audio file", isLoading |-> FALSE,
                            isPlaying |-> isPlaying]

handleError == [error |-> "Error playing audio file", isLoading |-> FALSE,
                isPlaying |-> FALSE]

\* the media element fires 'error' for the current source
PlayerHandleError ==
    /\ comp = "useAudioPlayer"
    /\ mounted
    /\ currentTrack # NoTrack
    /\ error' = handleError.error
    /\ isLoading' = handleError.isLoading
    /\ isPlaying' = handleError.isPlaying
    /\ elementPlaying' = FALSE
    /\ \E stillPending \in BOOLEAN : awaiting' = AbortPlays(awaiting, stillPending)
    /\ hadError' = TRUE
    /\ lastOp' = "error"
    /\ sampled' = FALSE
    /\ UNCHANGED <<pureVars, restVars, fileVars, audioRef, lifeVars, trackVars, volume,
                   elementVolume, comp, analyser, analysing, hasTrack, pending,
                   frameRef, nextId, visualizerData, stopped>>

\* 'waiting' listener, registered while the hook is mounted: setIsLoading(true)
PlayerHandleWaiting ==
    /\ comp = "useAudioPlayer"
    /\ mounted
    /\ isLoading' = TRUE
    /\ lastOp' = "other"
    /\ sampled' = FALSE
    /\ UNCHANGED <<pureVars, otherVars, fileVars, audioRef, lifeVars, trackVars, error,
                   volume, elementVolume, elementPlaying, hadError, comp, analyser,
                   analysing, hasTrack, isPlaying, pending, frameRef, nextId,
                   visualizerData, stopped>>

\* 'canplay', 'canplaythrough' and 'loadedmetadata' listeners: setIsLoading(false)
PlayerHandleCanPlay ==
    /\ comp = "useAudioPlayer"
    /\ mounted
    /\ isLoading' = FALSE
    /\ lastOp' = "other"
    /\ sampled' = FALSE
    /\ UNCHANGED <<pureVars, otherVars, fileVars, audioRef, lifeVars, trackVars, error,
                   volume, elementVolume, elementPlaying, hadError, comp, analyser,
                   analysing, hasTrack, isPlaying, pending, frameRef, nextId,
                   visualizerData, stopped>>

\* Math.max(0, Math.min(1, newVolume))
Clamp(newVolume) == JsMax(Num(0), JsMin(Num(1), newVolume))

\* the numbers changeVolume is called with
VolumeInputs == {Num(-1), Num(0), Rat(1, 2), Num(1), Num(2), Infinity(1),
                 Infinity(-1), NaN}

\* element.volume = v: the setter accepts finite values in [0,1] and throws
\* for any other
SetElementVolume(current, v) == IF InRange(v, 0, 1) THEN v ELSE current

\* changeVolume(newVolume): setVolume(clampedVolume), dropped after the
\* unmount; the element audioRef holds is given the volume
PlayerChangeVolume ==
    /\ comp = "useAudioPlayer"
    /\ \E newVolume \in VolumeInputs :
          LET clampedVolume == Clamp(newVolume)
          IN  /\ volume' = IF mounted THEN clampedVolume ELSE volume
              /\ elementVolume' = IF audioRef
                                  THEN SetElementVolume(elementVolume, clampedVolume)
                                  ELSE elementVolume
    /\ lastOp' = IF mounted THEN "other" ELSE lastOp
    /\ sampled' = FALSE
    /\ UNCHANGED <<pureVars, otherVars, fileVars, audioRef, lifeVars, trackVars, error,
                   isLoading, elementPlaying, hadError, comp, analyser, analysing,
                   hasTrack, isPlaying, pending, frameRef, nextId, visualizerData,
                   stopped>>

\* getFrequencyData(), as returned by the hook: the analyser is sampled
\* whenever analyserRef and dataArrayRef are set, whatever the state of its
\* context and also after the unmount; null otherwise
PlayerGetFrequencyData ==
    /\ comp = "useAudioPlayer"
    /\ sampled' = analyser
    /\ lastOp' = IF mounted THEN "other" ELSE lastOp
    /\ UNCHANGED <<pureVars, otherVars, fileVars, audioRef, lifeVars, trackVars, error,
                   isLoading, volume, elementVolume, elementPlaying, hadError, comp,
                   analyser, analysing, hasTrack, isPlaying, pending, frameRef, nextId,
                   visualizerData, stopped>>

\* unmount: the cleanup of the effect on [currentTrack].  React clears a ref
\* that was passed to an <audio> element it rendered; a ref the consumer
\* assigned by hand keeps the element (kept)
PlayerUnmount ==
    /\ comp = "useAudioPlayer"
    /\ mounted
    /\ mounted' = FALSE
    /\ \E kept \in BOOLEAN : audioRef' = kept
    /\ PlayerCleanup(currentTrack, urls)
    /\ lastOp' = "other"
    /\ sampled' = FALSE
    /\ UNCHANGED <<pureVars, otherVars, fileVars, bindVars, currentTrack, playlist,
                   currentTrackIndex, endedClosure, accepted, error, isLoading, volume,
                   elementVolume, elementPlaying, hadError, comp, analyser, analysing,
                   hasTrack, isPlaying, pending, frameRef, nextId, visualizerData,
                   stopped>>

NextLoops ==
    \/ HookHandlePlay
    \/ HookHandlePause
    \/ HookFrame
    \/ HookUnmount
    \/ HookCleanup
    \/ Mp3HandleFileUpload
    \/ Mp3TogglePlayPause
    \/ Mp3TogglePlayPauseSettled
    \/ Mp3HandleEnded
    \/ Mp3PlayNext
    \/ Mp3PlayPrevious
    \/ Mp3PlaylistClick
    \/ Mp3Frame
    \/ Mp3Unmount
    \/ AvInitializeAudioContext
    \/ AvInitializeAudioContextFails
    \/ AvSetIsPlaying
    \/ AvFrame
    \/ AvUnmount
    \/ PageHandleFileUpload
    \/ PageTogglePlay
    \/ PageTogglePlaySettled
    \/ PageEnded
    \/ PageUnmount
    \/ PlayerLoadTrack
    \/ PlayerPlay
    \/ PlayerPlaySettled
    \/ PlayerPause
    \/ PlayerHandleEnded
    \/ PlayerHandleError
    \/ PlayerHandleWaiting
    \/ PlayerHandleCanPlay
    \/ PlayerGetFrequencyData
    \/ PlayerUnmount

SpecLoops == InitLoops /\ [][NextLoops]_vars

\* ---------------------------------------------------------------------
\* The volume control of useAudioPlayer.  changeVolume reads mounted and
\* audioRef and writes volume and the element's volume, which no other
\* function of the hook reads or writes: it is run against the calls and
\* listeners of the hook that start no playback (play is part of NextLoops).
\* ---------------------------------------------------------------------
InitVolume ==
    /\ InitLoops
    /\ comp = "useAudioPlayer"

NextVolume ==
    \/ PlayerChangeVolume
    \/ PlayerLoadTrack
    \/ PlayerPause
    \/ PlayerHandleEnded
    \/ PlayerHandleError
    \/ PlayerHandleWaiting
    \/ PlayerHandleCanPlay
    \/ PlayerGetFrequencyData
    \/ PlayerUnmount

SpecVolume == InitVolume /\ [][NextVolume]_vars

\* ---------------------------------------------------------------------
\* File validation: validateAudioFile (audio utilities) and the FileUpload
\* component.  A file is a record of its name (a sequence of characters),
\* its declared type <<major, minor>> and its size in bytes; NoFile stands
\* for null.
\* ---------------------------------------------------------------------
MB == 1024 * 1024

\* const validTypes = [...]
validTypes == {<<"audio", "mpeg">>, <<"audio", "mp3">>, <<"audio", "wav">>,
               <<"audio", "ogg">>, <<"audio", "aac">>, <<"audio", "flac">>}

\* const maxSize = 100 * 1024 * 1024
maxSize == 100 * MB

validateAudioFileSizeFirst(f) ==
    IF f = NoFile
    THEN [valid |-> FALSE, error |-> "No file selected"]
    ELSE IF f.size > maxSize
    THEN [valid |-> FALSE, error |-> "File too large. Maximum size is 100MB."]
    ELSE IF f.type \notin validTypes
    THEN [valid |-> FALSE, error |-> "Invalid file type. Please select an audio file."]
    ELSE [valid |-> TRUE, error |-> "undefined"]

validateAudioFile(f) ==
    IF f = NoFile
    THEN [valid |-> FALSE, error |-> "No file selected"]
    ELSE IF f.type \notin validTypes
    THEN [valid |-> FALSE, error |-> "Invalid file type. Please select an audio file."]
    ELSE IF f.size > maxSize
    THEN [valid |-> FALSE, error |-> "File too large. Maximum size is 100MB."]
    ELSE [valid |-> TRUE, error |-> "undefined"]

\* the declared types and sizes validateAudioFile is tried on
DeclaredTypes == validTypes \cup {<<"audio", "x-m4a">>, <<"audio", "mp4">>,
                                  <<"video", "mp4">>, <<"", "">>}

FileSizes == {0, 1, 50 * MB, 50 * MB + 1, 100 * MB - 1, 100 * MB, 100 * MB + 1,
              200 * MB}

ValidationInputs ==
    {NoFile} \cup {[name |-> <<"a">>, type |-> t, size |-> z] :
                      t \in DeclaredTypes, z \in FileSizes}

\* ---- FileUpload ----

\* const allowedTypes = [...]
allowedTypes == {<<"audio", "mpeg">>, <<"audio", "wav">>, <<"audio", "mp3">>,
                 <<"audio", "x-m4a">>, <<"audio", "mp4">>}

\* the flag i of the regular expression: letters compare in lower case
ToLower(c) ==
    CASE c = "M" -> "m"
      [] c = "P" -> "p"
      [] c = "W" -> "w"
      [] c = "A" -> "a"
      [] c = "V" -> "v"
      [] OTHER -> c

\* file.name.match(/\.(mp3|wav|m4a)$/i)
MatchesExtension(name) ==
    /\ Len(name) >= 4
    /\ name[Len(name) - 3] = "."
    /\ [i \in 1..3 |-> ToLower(name[Len(name) - 3 + i])]
          \in {<<"m", "p", "3">>, <<"w", "a", "v">>, <<"m", "4", "a">>}

\* Math.round(maxFileSize / (1024 * 1024)) for a size that is not negative
RoundedMB(limit) == (2 * limit + MB) \div (2 * MB)

\* validateFile of a render whose maxFileSize prop is limit: a message (the
\* sequence of its parts), or the empty sequence for null
validateFile(f, limit) ==
    IF f.type \notin allowedTypes /\ ~MatchesExtension(f.name)
    THEN <<"Please select a valid audio file (MP3, WAV, M4A)">>
    ELSE IF f.size > limit
    THEN <<"File size must be less than ", RoundedMB(limit), "MB">>
    ELSE <<>>

\* handleFileSelect of a render whose maxFileSize prop is limit; calls: the
\* arguments onFileSelect was called with
handleFileSelect(f, limit, via) ==
    LET validationError == validateFile(f, limit)
    IN  /\ IF validationError # <<>>
           THEN /\ uploadError' = validationError
                /\ UNCHANGED selectedFile
           ELSE /\ uploadError' = <<>>
                /\ selectedFile' = f
        /\ lastPick' = [file |-> f, via |-> via, maxFileSize |-> maxFileSize,
                        selectedBefore |-> selectedFile,
                        calls |-> IF validationError # <<>> THEN <<>> ELSE <<f>>]

\* the values the parent gives the maxFileSize prop
MaxFileSizes == {DefaultMaxFileSize, 10 * MB}

\* the files picked or dropped
UploadNames == {<<"a", ".", "m", "p", "3">>, <<"A", ".", "W", "A", "V">>,
                <<"a", ".", "o", "g", "g">>, <<"m", "p", "3">>}

UploadFiles ==
    {[name |-> nm, type |-> t, size |-> z] :
        nm \in UploadNames,
        t \in {<<"audio", "mpeg">>, <<"audio", "ogg">>},
        z \in {10 * MB, 10 * MB + 1, 50 * MB, 50 * MB + 1}}

InitFiles ==
    /\ NoPureCalls
    /\ NoOthers
    /\ comp \in {"validateAudioFile", "FileUpload"}
    /\ analyser = FALSE
    /\ analysing = FALSE
    /\ hasTrack = FALSE
    /\ isPlaying = FALSE
    /\ pending = {}
    /\ frameRef = 0
    /\ nextId = 1
    /\ visualizerData = "zeros"
    /\ sampled = FALSE
    /\ stopped = FALSE
    /\ mounted = (comp = "FileUpload")
    /\ openContexts = 0
    /\ contextRef = "null"
    /\ bound = FALSE
    /\ bindSeen = {}
    /\ bindKept = TRUE
    /\ NoTracks
    /\ IF comp = "validateAudioFile" THEN file \in ValidationInputs ELSE file = NoFile
    /\ validation = [valid |-> FALSE, error |-> "not called"]
    /\ IF comp = "FileUpload" THEN maxFileSize \in MaxFileSizes
       ELSE maxFileSize = DefaultMaxFileSize
    /\ mountMaxFileSize = maxFileSize
    /\ selectedFile = NoFile
    /\ uploadError = <<>>
    /\ lastPick = NoPick

\* const result = validateAudioFile(file)
CallValidateAudioFile ==
    /\ comp = "validateAudioFile"
    /\ validation.error = "not called"
    /\ validation' = validateAudioFile(file)
    /\ UNCHANGED <<pureVars, otherVars, loopVars, lifeVars, playerVars, audioRef, file,
                   maxFileSize, mountMaxFileSize, selectedFile, uploadError, lastPick>>

\* handleInputChange with one file or more: handleFileSelect(files[0]) of the
\* current render
FuHandleInputChange ==
    /\ comp = "FileUpload"
    /\ mounted
    /\ \E f \in UploadFiles : handleFileSelect(f, maxFileSize, "input")
    /\ UNCHANGED <<pureVars, otherVars, loopVars, lifeVars, playerVars, audioRef, file,
                   validation, maxFileSize, mountMaxFileSize>>

\* handleDrop, memoized with no dependencies: handleFileSelect(files[0]) of
\* the first render
FuHandleDrop ==
    /\ comp = "FileUpload"
    /\ mounted
    /\ \E f \in UploadFiles : handleFileSelect(f, mountMaxFileSize, "drop")
    /\ UNCHANGED <<pureVars, otherVars, loopVars, lifeVars, playerVars, audioRef, file,
                   validation, maxFileSize, mountMaxFileSize>>

\* removeFile: setSelectedFile(null); setError(''); onFileSelect(null)
FuRemoveFile ==
    /\ comp = "FileUpload"
    /\ mounted
    /\ selectedFile # NoFile
    /\ uploadError = <<>>
    /\ selectedFile' = NoFile
    /\ uploadError' = <<>>
    /\ lastPick' = NoPick
    /\ UNCHANGED <<pureVars, otherVars, loopVars, lifeVars, playerVars, audioRef, file,
                   validation, maxFileSize, mountMaxFileSize>>

\* the parent renders FileUpload again with another maxFileSize
FuRender ==
    /\ comp = "FileUpload"
    /\ mounted
    /\ \E limit \in MaxFileSizes \ {maxFileSize} : maxFileSize' = limit
    /\ lastPick' = NoPick
    /\ UNCHANGED <<pureVars, otherVars, loopVars, lifeVars, playerVars, audioRef, file,
                   validation, mountMaxFileSize, selectedFile, uploadError>>

NextFiles ==
    \/ CallValidateAudioFile
    \/ FuHandleInputChange
    \/ FuHandleDrop
    \/ FuRemoveFile
    \/ FuRender

SpecFiles == InitFiles /\ [][NextFiles]_vars

\* ---------------------------------------------------------------------
\* useAudioVisualizer: getWaveformPoints
\* ---------------------------------------------------------------------

\* waveformData[index] || 128: the fallback is taken for an index beyond the
\* array (undefined) and for a sample that is 0
SampleOrCentre(waveform, index) ==
    IF index >= Len(waveform) THEN 128
    ELSE IF waveform[index + 1] = 0 THEN 128
    ELSE waveform[index + 1]

getWaveformPoints(waveform, count) ==
    IF Len(waveform) = 0 THEN Fill(count, 128)
    ELSE LET step == Len(waveform) \div count
         IN  [i \in 1..count |-> SampleOrCentre(waveform, (i - 1) * step)]

\* time-domain samples: 128 is silence, 0 and 255 the peaks
WaveValues == {0, 1, 128, 255}

\* a snapshot of len samples that repeats the pattern
Tile(pattern, len) == [i \in 1..len |-> pattern[((i - 1) % Len(pattern)) + 1]]

\* the waveform snapshots the hook holds, FrequencyBinCount samples each: the
\* zeros it is made with, and what getByteTimeDomainData wrote since
WaveSnapshots ==
    {Tile(pattern, FrequencyBinCount) :
        pattern \in UNION {[1..n -> WaveValues] : n \in 1..MaxWaveLen}}
    \cup {Ramp(FrequencyBinCount)}

\* 128 is the default of getWaveformPoints
PointCounts == 1..MaxPoints \cup {128}

InitWave ==
    /\ NoPureCalls
    /\ NoComponent
    /\ NoStorage
    /\ NoControls
    /\ NoAwaiting
    /\ waveformData \in WaveSnapshots
    /\ points \in PointCounts
    /\ wavePoints = <<>>

\* the hook holding waveformData: getWaveformPoints(points)
CallGetWaveformPoints ==
    /\ wavePoints = <<>>
    /\ wavePoints' = getWaveformPoints(waveformData, points)
    /\ UNCHANGED <<pureVars, loopVars, lifeVars, playerVars, fileVars, audioRef,
                   storageVars, controlVars, awaiting, waveformData, points>>

NextWave ==
    \/ CallGetWaveformPoints

SpecWave == InitWave /\ [][NextWave]_vars

\* ---------------------------------------------------------------------
\* Local cache: saveToLocalStorage, clearAudioCache.  The storage is the set
\* of its items <<key, stored string>>; keys and strings are tuples of
\* characters.
\* ---------------------------------------------------------------------

\* 'audio_' and 'player_'
AudioPrefix == <<"a", "u", "d", "i", "o", "_">>

PlayerPrefix == <<"p", "l", "a", "y", "e", "r", "_">>

\* key.startsWith(prefix)
StartsWith(key, prefix) ==
    /\ Len(key) >= Len(prefix)
    /\ SubSeq(key, 1, Len(prefix)) = prefix

\* Object.keys(localStorage)
ObjectKeys(store) == {item[1] : item \in store}

\* localStorage.setItem(key, value)
setItem(store, key, value) == {item \in store : item[1] # key} \cup {<<key, value>>}

\* localStorage.removeItem(key)
removeItem(store, key) == {item \in store : item[1] # key}

\* JSON.stringify(data) of a number or a string
JSONStringify(data) ==
    IF data.kind = "string" THEN <<"\"">> \o data.chars \o <<"\"">>
    ELSE data.chars

\* saveToLocalStorage(key, data): false when setItem (or reading
\* window.localStorage) throws
saveToLocalStorage(store, key, data, throws) ==
    IF throws THEN [store |-> store, result |-> FALSE]
    ELSE [store |-> setItem(store, key, JSONStringify(data)), result |-> TRUE]

\* keys.forEach(key => { if (key.startsWith(...) || ...) removeItem(key) })
RECURSIVE ClearLoopAudioOnly(_, _)
ClearLoopAudioOnly(store, keys) ==
    IF keys = {} THEN store
    ELSE LET key == CHOOSE k \in keys : TRUE
         IN  ClearLoopAudioOnly(IF StartsWith(key, AudioPrefix)
                                THEN removeItem(store, key) ELSE store,
                                keys \ {key})

RECURSIVE ClearLoop(_, _)
ClearLoop(store, keys) ==
    IF keys = {} THEN store
    ELSE LET key == CHOOSE k \in keys : TRUE
         IN  ClearLoop(IF StartsWith(key, AudioPrefix) \/ StartsWith(key, PlayerPrefix)
                       THEN removeItem(store, key) ELSE store,
                       keys \ {key})

\* clearAudioCache(): false when reading window.localStorage throws
clearAudioCacheAudioOnly(store, throws) ==
    IF throws THEN [store |-> store, result |-> FALSE]
    ELSE [store |-> ClearLoopAudioOnly(store, ObjectKeys(store)), result |-> TRUE]

clearAudioCache(store, throws) ==
    IF throws THEN [store |-> store, result |-> FALSE]
    ELSE [store |-> ClearLoop(store, ObjectKeys(store)), result |-> TRUE]

\* audio_v, audio_, player_s, audio, Audio_v, my_audio_, theme
StorageKeys ==
    {AudioPrefix \o <<"v">>,
     AudioPrefix,
     PlayerPrefix \o <<"s">>,
     <<"a", "u", "d", "i", "o">>,
     <<"A", "u", "d", "i", "o", "_", "v">>,
     <<"m", "y", "_">> \o AudioPrefix,
     <<"t", "h", "e", "m", "e">>}

\* the number 1 and the string 'a'
StorableData ==
    {[kind |-> "number", chars |-> <<"1">>],
     [kind |-> "string", chars |-> <<"a">>]}

InitStorage ==
    /\ NoPureCalls
    /\ NoComponent
    /\ NoWave
    /\ NoControls
    /\ NoAwaiting
    /\ localStorage = {}
    /\ storageAvailable \in BOOLEAN
    /\ storedBefore = {}
    /\ storageOp = NoStorageOp

\* saveToLocalStorage(key, data); setItem may throw for lack of space
CallSaveToLocalStorage ==
    /\ \E key \in StorageKeys, data \in StorableData, quotaExceeded \in BOOLEAN :
          LET r == saveToLocalStorage(localStorage, key, data,
                                      ~storageAvailable \/ quotaExceeded)
          IN  /\ localStorage' = r.store
              /\ storageOp' = [op |-> "save", result |-> r.result]
    /\ storedBefore' = {}
    /\ UNCHANGED <<pureVars, loopVars, lifeVars, playerVars, fileVars, audioRef, waveVars,
                   controlVars, awaiting, storageAvailable>>

\* clearAudioCache()
CallClearAudioCache ==
    /\ storageOp.op # "clear"
    /\ LET r == clearAudioCache(localStorage, ~storageAvailable)
       IN  /\ localStorage' = r.store
           /\ storageOp' = [op |-> "clear", result |-> r.result]
    /\ storedBefore' = localStorage
    /\ UNCHANGED <<pureVars, loopVars, lifeVars, playerVars, fileVars, audioRef, waveVars,
                   controlVars, awaiting, storageAvailable>>

NextStorage ==
    \/ CallSaveToLocalStorage
    \/ CallClearAudioCache

SpecStorage == InitStorage /\ [][NextStorage]_vars

\* ---------------------------------------------------------------------
\* PlaybackControls.  The component is controlled: currentTrack (used only
\* for its truthiness: hasTrack), isPlaying, volume, playlist and
\* currentTrackIndex are props, and setIsPlaying, setVolume and onTrackChange
\* are the parent's.  The parent keeps currentTrackIndex a pointer into the
\* playlist; the audio element of audioRef is present.
\* ---------------------------------------------------------------------

\* Math.random(): a number in [0,1)
RandomValues == {Num(0), Rat(1, 3), Rat(1, 2), Rat(2, 3), Rat(3, 4), Rat(99, 100)}

\* Math.floor(random * length)
FloorTimes(random, length) == (random.n * length) \div random.d

\* handleNextTrack: the arguments of its onTrackChange calls, in order
handleNextTrackNoWrap(length, index, shuffled, random) ==
    IF length = 0 THEN <<>>
    ELSE IF shuffled THEN <<FloorTimes(random, length)>>
    ELSE <<index + 1>>

handleNextTrack(length, index, shuffled, random) ==
    IF length = 0 THEN <<>>
    ELSE IF shuffled THEN <<FloorTimes(random, length)>>
    ELSE <<(index + 1) % length>>

\* handlePrevTrack: the arguments of its onTrackChange calls, in order
handlePrevTrack(length, index, shuffled, random) ==
    IF length = 0 THEN <<>>
    ELSE IF shuffled THEN <<FloorTimes(random, length)>>
    ELSE <<IF index = 0 THEN length - 1 ELSE index - 1>>

\* toggleRepeatMode: modes[(modes.indexOf(repeatMode) + 1) % modes.length]
RepeatModes == <<"none", "one", "all">>

toggleRepeatMode(mode) ==
    LET currentIndex == CHOOSE k \in 1..Len(RepeatModes) : RepeatModes[k] = mode
    IN  RepeatModes[(currentIndex % Len(RepeatModes)) + 1]

\* handleEnded of the render the listener was registered in
handleEnded(listener, random) ==
    IF listener.repeatMode = "one"
    THEN [restarted |-> TRUE, calls |-> <<>>, setIsPlaying |-> <<>>]
    ELSE IF listener.repeatMode = "all"
            \/ listener.currentTrackIndex < listener.length - 1
    THEN [restarted |-> FALSE, setIsPlaying |-> <<>>,
          calls |-> handleNextTrack(listener.length, listener.currentTrackIndex,
                                    listener.isShuffled, random)]
    ELSE [restarted |-> FALSE, calls |-> <<>>, setIsPlaying |-> <<FALSE>>]

\* handleVolumeChange(newVolume): the new volume state, element volume and
\* isMuted
handleVolumeChange(newVolume, muted) ==
    LET volumeValue == JsDiv(Num(newVolume), Num(100))
    IN  [volume |-> volumeValue,
         elementVolume |-> volumeValue,
         isMuted |-> IF newVolume > 0 /\ muted THEN FALSE ELSE muted]

\* toggleMute: the new element volume and isMuted
toggleMuteRestoresFull(muted, volumeState) ==
    IF muted THEN [elementVolume |-> Num(1), isMuted |-> FALSE]
    ELSE [elementVolume |-> Num(0), isMuted |-> TRUE]

toggleMute(muted, volumeState) ==
    IF muted THEN [elementVolume |-> volumeState, isMuted |-> FALSE]
    ELSE [elementVolume |-> Num(0), isMuted |-> TRUE]

\* the positions of the slider (max 100, step 1) that are tried
SliderValues == {0, 50, 100}

\* what PlaybackControls never reads or writes
controlsRest == <<pureVars, fileVars, audioRef, waveVars, storageVars, awaiting, comp,
                  analyser, analysing, pending, frameRef, nextId, visualizerData, sampled,
                  stopped, lifeVars, currentTrack, endedClosure, accepted, urls,
                  error, isLoading, hadError, lastOp>>

\* the effect on [repeatMode, currentTrackIndex, playlist.length]: when one
\* of them changed in the coming render, handleEnded of that render replaces
\* the registered listener
EndedEffect ==
    endedListener' =
        IF <<repeatMode', currentTrackIndex', Len(playlist')>>
              # <<repeatMode, currentTrackIndex, Len(playlist)>>
        THEN [repeatMode |-> repeatMode', currentTrackIndex |-> currentTrackIndex',
              length |-> Len(playlist'), isShuffled |-> isShuffled']
        ELSE endedListener

\* the parent's onTrackChange(index), for each call in order: the pointer moves
ParentOnTrackChange(calls) ==
    currentTrackIndex' = IF calls = <<>> THEN currentTrackIndex ELSE calls[Len(calls)]

\* the record of a navigation handled in the current render
NavRecord(via, r) ==
    [via |-> via, calls |-> r.calls, from |-> currentTrackIndex,
     length |-> Len(playlist), shuffled |-> isShuffled, repeatMode |-> repeatMode,
     restarted |-> r.restarted, setIsPlaying |-> r.setIsPlaying,
     before |-> [via |-> lastNav.via, from |-> lastNav.from,
                 shuffled |-> lastNav.shuffled]]

InitControls ==
    /\ NoPureCalls
    /\ NoWave
    /\ NoStorage
    /\ NoFiles
    /\ NoControls
    /\ NoAwaiting
    /\ comp = "PlaybackControls"
    /\ analyser = FALSE
    /\ analysing = FALSE
    /\ hasTrack \in BOOLEAN
    /\ isPlaying = FALSE
    /\ pending = {}
    /\ frameRef = 0
    /\ nextId = 1
    /\ visualizerData = "zeros"
    /\ sampled = FALSE
    /\ stopped = FALSE
    /\ mounted = TRUE
    /\ openContexts = 0
    /\ contextRef = "null"
    /\ bound = FALSE
    /\ bindSeen = {}
    /\ bindKept = TRUE
    /\ currentTrack = NoTrack
    /\ playlist = <<>>
    /\ currentTrackIndex = 0
    /\ endedClosure = NoClosure
    /\ accepted = <<>>
    /\ urls = <<>>
    /\ error = "null"
    /\ isLoading = FALSE
    /\ volume \in {Num(1), Rat(7, 10)}
    /\ elementVolume = Num(1)
    /\ elementPlaying = FALSE
    /\ audioRef = FALSE
    /\ hadError = FALSE
    /\ lastOp = "none"

\* the parent adds a track to the playlist it passes
CtlParentAddTrack ==
    /\ comp = "PlaybackControls"
    /\ Len(playlist) < MaxPlaylist
    /\ playlist' = Append(playlist, [url |-> Len(playlist) + 1, file |-> NoFile])
    /\ hasTrack' = TRUE
    /\ lastNav' = NoNav
    /\ UNCHANGED <<controlsRest, currentTrackIndex, isPlaying, elementPlaying, volume,
                   elementVolume, isMuted, isShuffled, repeatMode, lastVolumeOp>>
    /\ EndedEffect

\* togglePlayPause: audio.pause() or audio.play() (whose promise is not
\* awaited: the element may not start), then setIsPlaying(!isPlaying)
CtlTogglePlayPause ==
    /\ comp = "PlaybackControls"
    /\ hasTrack
    /\ IF isPlaying THEN elementPlaying' = FALSE ELSE elementPlaying' \in BOOLEAN
    /\ isPlaying' = ~isPlaying
    /\ lastNav' = NoNav
    /\ UNCHANGED <<controlsRest, hasTrack, playlist, currentTrackIndex, volume,
                   elementVolume, isMuted, isShuffled, repeatMode, lastVolumeOp>>
    /\ EndedEffect

\* handleVolumeChange([v]) from the slider
CtlHandleVolumeChange ==
    /\ comp = "PlaybackControls"
    /\ \E newVolume \in SliderValues :
          LET r == handleVolumeChange(newVolume, isMuted)
          IN  /\ volume' = r.volume
              /\ elementVolume' = r.elementVolume
              /\ isMuted' = r.isMuted
    /\ lastVolumeOp' = [op |-> "handleVolumeChange", volumeBefore |-> volume]
    /\ lastNav' = NoNav
    /\ UNCHANGED <<controlsRest, hasTrack, playlist, currentTrackIndex, isPlaying,
                   elementPlaying, isShuffled, repeatMode>>
    /\ EndedEffect

\* toggleMute
CtlToggleMute ==
    /\ comp = "PlaybackControls"
    /\ LET r == toggleMute(isMuted, volume)
       IN  /\ elementVolume' = r.elementVolume
           /\ isMuted' = r.isMuted
    /\ lastVolumeOp' = [op |-> "toggleMute", volumeBefore |-> volume]
    /\ lastNav' = NoNav
    /\ UNCHANGED <<controlsRest, hasTrack, playlist, currentTrackIndex, isPlaying,
                   elementPlaying, volume, isShuffled, repeatMode>>
    /\ EndedEffect

\* the next button (disabled while the playlist is empty): handleNextTrack
CtlHandleNextTrack ==
    /\ comp = "PlaybackControls"
    /\ Len(playlist) > 0
    /\ \E random \in RandomValues :
          LET calls == handleNextTrack(Len(playlist), currentTrackIndex, isShuffled,
                                       random)
          IN  /\ ParentOnTrackChange(calls)
              /\ lastNav' = NavRecord("next", [calls |-> calls, restarted |-> FALSE,
                                               setIsPlaying |-> <<>>])
    /\ UNCHANGED <<controlsRest, hasTrack, playlist, isPlaying, elementPlaying, volume,
                   elementVolume, isMuted, isShuffled, repeatMode, lastVolumeOp>>
    /\ EndedEffect

\* the previous button (disabled while the playlist is empty): handlePrevTrack
CtlHandlePrevTrack ==
    /\ comp = "PlaybackControls"
    /\ Len(playlist) > 0
    /\ \E random \in RandomValues :
          LET calls == handlePrevTrack(Len(playlist), currentTrackIndex, isShuffled,
                                       random)
          IN  /\ ParentOnTrackChange(calls)
              /\ lastNav' = NavRecord("prev", [calls |-> calls, restarted |-> FALSE,
                                               setIsPlaying |-> <<>>])
    /\ UNCHANGED <<controlsRest, hasTrack, playlist, isPlaying, elementPlaying, volume,
                   elementVolume, isMuted, isShuffled, repeatMode, lastVolumeOp>>
    /\ EndedEffect

\* the shuffle button: setIsShuffled(!isShuffled)
CtlToggleShuffle ==
    /\ comp = "PlaybackControls"
    /\ isShuffled' = ~isShuffled
    /\ lastNav' = NoNav
    /\ UNCHANGED <<controlsRest, hasTrack, playlist, currentTrackIndex, isPlaying,
                   elementPlaying, volume, elementVolume, isMuted, repeatMode,
                   lastVolumeOp>>
    /\ EndedEffect

\* the repeat button: toggleRepeatMode
CtlToggleRepeatMode ==
    /\ comp = "PlaybackControls"
    /\ repeatMode' = toggleRepeatMode(repeatMode)
    /\ lastNav' = NoNav
    /\ UNCHANGED <<controlsRest, hasTrack, playlist, currentTrackIndex, isPlaying,
                   elementPlaying, volume, elementVolume, isMuted, isShuffled,
                   lastVolumeOp>>
    /\ EndedEffect

\* the 'ended' event of the element, fired when the position reaches the
\* end in playback or by a seek to the end (handleProgressClick) on a paused
\* element: the registered handleEnded.  The element has stopped at its end;
\* the audio.play() of repeat 'one' is not awaited and the host may refuse it
\* (started: whether the element takes up playback)
CtlEnded ==
    /\ comp = "PlaybackControls"
    /\ hasTrack
    /\ \E random \in RandomValues, started \in BOOLEAN :
          LET r == handleEnded(endedListener, random)
          IN  /\ ParentOnTrackChange(r.calls)
              /\ elementPlaying' = (r.restarted /\ started)
              /\ isPlaying' = IF r.setIsPlaying = <<>> THEN isPlaying
                              ELSE r.setIsPlaying[Len(r.setIsPlaying)]
              /\ lastNav' = NavRecord("ended", r)
    /\ UNCHANGED <<controlsRest, hasTrack, playlist, volume, elementVolume, isMuted,
                   isShuffled, repeatMode, lastVolumeOp>>
    /\ EndedEffect

NextControls ==
    \/ CtlParentAddTrack
    \/ CtlTogglePlayPause
    \/ CtlHandleVolumeChange
    \/ CtlToggleMute
    \/ CtlHandleNextTrack
    \/ CtlHandlePrevTrack
    \/ CtlToggleShuffle
    \/ CtlToggleRepeatMode
    \/ CtlEnded

SpecControls == InitControls /\ [][NextControls]_vars

\* ---------------------------------------------------------------------
\* Properties of the reduction functions (checked under SpecPure)
\* ---------------------------------------------------------------------
\* the sum of array[j] over the 0-based indices lo..hi-1
RECURSIVE SumRange(_, _, _)
SumRange(array, lo, hi) ==
    IF hi <= lo THEN 0
    ELSE IF hi = lo + 1 THEN array[lo + 1]
    ELSE LET mid == (lo + hi) \div 2
         IN  SumRange(array, lo, mid) + SumRange(array, mid, hi)

\* the mean of array[j] over the 0-based indices lo..hi-1, as an exact fraction
MeanOf(array, lo, hi) ==
    IF hi <= lo THEN NaN ELSE Rat(SumRange(array, lo, hi), hi - lo)

AllZero(array) == \A j \in 1..Len(array) : array[j] = 0

\* C1: for a non-empty snapshot and 1 <= barCount <= len(snapshot),
\* normalizeFrequencyData returns exactly barCount elements, each in [0,1].
C1_LengthAndRange ==
    ("normalize" \in called /\ Len(snapshot0) > 0 /\ barCount <= Len(snapshot0))
        => /\ Len(normalized) = barCount
           /\ \A i \in 1..Len(normalized) : InRange(normalized[i], 0, 1)

C1_Witness ==
    /\ "normalize" \in called
    /\ Len(snapshot0) > 0
    /\ barCount > 1
    /\ barCount <= Len(snapshot0)
    /\ \E i \in 1..Len(normalized) : normalized[i] = Num(1)
    /\ \E i \in 1..Len(normalized) : normalized[i].n > 0 /\ normalized[i].n < normalized[i].d

\* C2: for 1 <= barCount <= len, with c = floor(len / barCount), element i
\* is (sum of s[j], j in [i*c, (i+1)*c)) / c / 255; the scenario snapshot
\* with barCount = 4 yields [32/255, 160/255, 255/255, 160/255].
C2_ChunkedAverage ==
    ("normalize" \in called /\ barCount <= Len(snapshot0))
        => LET c == Len(snapshot0) \div barCount
           IN  /\ Len(normalized) = barCount
               /\ \A i \in 0..(barCount - 1) :
                     normalized[i + 1]
                        = Rat(SumRange(snapshot0, i * c, (i + 1) * c), c * 255)
               /\ (snapshot0 = Scenario8 /\ barCount = 4)
                     => normalized = <<Rat(32, 255), Rat(160, 255),
                                       Rat(255, 255), Rat(160, 255)>>

C2_Witness ==
    /\ "normalize" \in called
    /\ snapshot0 = Scenario8
    /\ barCount = 4
    /\ normalized[2] = Rat(160, 255)

\* C3: for a non-empty snapshot and barCount > len(snapshot) the bar
\* reduction returns barCount zeros and produces no NaN or Infinity.
C3_ZeroFillWhenChunkSizeZero ==
    (Len(snapshot0) > 0 /\ barCount > Len(snapshot0))
        => /\ "normalize" \in called
                => /\ normalized = Fill(barCount, Num(0))
                   /\ \A i \in 1..Len(normalized) : IsFinite(normalized[i])
           /\ "getBarData" \in called
                => /\ barData = Fill(barCount, Num(0))
                   /\ \A i \in 1..Len(barData) : IsFinite(barData[i])

\* C4: for an all-zero snapshot of any length (the empty one included) and
\* any barCount >= 1, normalizeFrequencyData returns barCount zeros.
C4_AllZeroSnapshot ==
    ("normalize" \in called /\ AllZero(snapshot0))
        => normalized = Fill(barCount, Num(0))

\* C5 (as claimed): when len(snapshot) is not divisible by barCount, the
\* last bar sums fewer than chunkSize samples and divides by chunkSize.
C5_LastBarPartial ==
    ("normalize" \in called /\ Len(snapshot0) > 0
        /\ Len(snapshot0) % barCount # 0)
        => Len(BarIndices(Len(snapshot0), barCount, barCount - 1))
              < Len(snapshot0) \div barCount

\* C5 (amended): when len(snapshot) is not divisible by barCount, every
\* bar, the last included, sums exactly chunkSize = floor(len / barCount)
\* samples, all below barCount * chunkSize, and is that sum divided by the
\* number of samples summed and by 255; the trailing samples enter no bar.
C5_NoPartialChunk ==
    ("normalize" \in called /\ Len(snapshot0) > 0
        /\ Len(snapshot0) % barCount # 0)
        => LET c == Len(snapshot0) \div barCount
           IN  \A i \in 0..(barCount - 1) :
                 LET idx == BarIndices(Len(snapshot0), barCount, i)
                 IN  /\ Len(idx) = c
                     /\ \A k \in 1..Len(idx) : idx[k] < barCount * c
                     /\ normalized[i + 1]
                          = JsDiv(JsDiv(Num(SumAt(snapshot0, idx)), Num(Len(idx))),
                                  Num(255))

C5_Witness ==
    /\ "normalize" \in called
    /\ Len(snapshot0) = 3
    /\ barCount = 2
    /\ snapshot0[3] = 255
    /\ normalized = <<Num(0), Rat(128, 255)>>

C7_SmoothingExtremes ==
    LET raw == ToNums(snapshot0)
    IN  /\ Num(0) \in DOMAIN smoothed
              => /\ Len(smoothed[Num(0)]) = Len(raw)
                 /\ \A i \in 1..Len(raw) : smoothed[Num(0)][i] = raw[i]
        /\ Num(1) \in DOMAIN smoothed
              => /\ Len(smoothed[Num(1)]) = Len(raw)
                 /\ \A i \in 1..Len(raw) : smoothed[Num(1)][i] = raw[1]
        /\ DOMAIN smoothed # {} => smoothInput = raw

C7_Witness ==
    /\ Num(0) \in DOMAIN smoothed
    /\ Num(1) \in DOMAIN smoothed
    /\ Len(snapshot0) = 3
    /\ snapshot0[1] # snapshot0[2]
    /\ snapshot0[2] # snapshot0[3]

\* C8: for a non-empty snapshot of length n that the hook holds,
\* getBassLevel is the mean of the first floor(n/10) bins and getTrebleLevel
\* the mean of the bins floor(7n/10)..n-1, and both are numbers in [0,255];
\* for n = 100 the two index bounds of the code are 10 and 70.
C8_BassTrebleLevels ==
    LET n == Len(snapshot0)
    IN  /\ ("getBassLevel" \in called /\ n > 0)
              => /\ InRange(bassLevel, 0, 255)
                 /\ bassLevel = MeanOf(snapshot0, 0, n \div 10)
        /\ ("getTrebleLevel" \in called /\ n > 0)
              => /\ InRange(trebleLevel, 0, 255)
                 /\ trebleLevel = MeanOf(snapshot0, (7 * n) \div 10, n)
        /\ BassRange(100) = 10
        /\ TrebleStart(100) = 70

C8_Witness ==
    /\ "getBassLevel" \in called
    /\ "getTrebleLevel" \in called
    /\ snapshot0 = Ramp(FrequencyBinCount)
    /\ bassLevel = MeanOf(snapshot0, 0, 12)
    /\ trebleLevel = MeanOf(snapshot0, 89, 128)
    /\ bassLevel # trebleLevel

\* ---------------------------------------------------------------------
\* Properties of the sampling loops (checked under SpecLoops)
\* ---------------------------------------------------------------------

\* C9: in useAudioVisualizer, Mp3Player and AudioVisualizer, once a pause
\* has been processed no getByteFrequencyData call is issued until playback
\* is started again, whatever callbacks were pending at the pause.
C9_NoSampleAfterPause ==
    (comp \in {"useAudioVisualizer", "Mp3Player", "AudioVisualizer"} /\ stopped)
        => ~sampled

\* C10: while playback is active and an analyser is attached, the loop
\* has sampled and a next tick is armed; in the page-level MP3Player, after
\* togglePlay starts playback, animate has sampled the analyser, updated
\* visualizerData and scheduled itself.
C10_LoopRunsWhilePlaying ==
    /\ (comp \in {"Mp3Player", "AudioVisualizer"} /\ mounted /\ isPlaying /\ analyser)
          => \E f \in pending : f.id = frameRef
    /\ (comp = "MP3Player" /\ mounted /\ isPlaying /\ analyser)
          => /\ \E f \in pending : f.id = frameRef
             /\ visualizerData = "snapshot"

\* ---------------------------------------------------------------------
\* Properties of teardown and of the owned resources (checked under SpecLoops)
\* ---------------------------------------------------------------------

\* C11: after a component that runs a sampling loop is unmounted, no
\* animation-frame callback it scheduled is still pending and none of its
\* callbacks samples again.
C11_NoFrameAfterTeardown ==
    (comp \in Components /\ ~mounted)
        => (pending = {} /\ (comp # "useAudioPlayer" => ~sampled))

\* C12: after a component is unmounted, no AudioContext it made is still
\* open.
C12_ContextsClosedAfterUnmount ==
    (comp \in Components /\ ~mounted) => openContexts = 0

\* C13: a second attempt to bind an already-bound audio element never
\* propagates an exception (it is skipped by a guard or caught), and the
\* failed attempt issues no update of isPlaying or currentTrack.
C13_DoubleBindContained ==
    /\ "thrown" \notin bindSeen
    /\ bindKept

C13_Witness ==
    /\ comp = "Mp3Player"
    /\ "caught" \in bindSeen
    /\ currentTrackIndex = 1
    /\ bound

\* C14: when creating or attaching the analyser fails during
\* useAudioPlayer.play, the audio element keeps playing, isPlaying is true
\* and the error state stays unset.
C14_AnalyserFailureSilent ==
    (comp = "useAudioPlayer" /\ lastOp = "playAnalyserFailed")
        => (elementPlaying /\ isPlaying /\ error = "null")

\* C15 (as claimed): in useAudioPlayer the error event sets error,
\* isPlaying = false and isLoading = false; a later loadTrack(file) with any
\* truthy argument resets error to null and a play that follows sets
\* isPlaying to true again.
C15_ErrorNotTerminal ==
    comp = "useAudioPlayer"
        => /\ lastOp = "error" => (error # "null" /\ ~isPlaying /\ ~isLoading)
           /\ (hadError /\ lastOp \in {"loadTrack", "loadTrackFailed"})
                 => error = "null"
           /\ (hadError /\ lastOp \in {"play", "playAnalyserFailed"}) => isPlaying

\* C15 (amended): the error event sets error to 'Error playing audio file',
\* isPlaying = false and isLoading = false; a later loadTrack(file) whose
\* object URL is created resets error to null, one whose createObjectURL
\* throws replaces it by 'Failed to load audio file', and both leave
\* isLoading false; a play fulfilled afterwards sets isPlaying to true again.
C15_ErrorClearedByLoadedTrack ==
    comp = "useAudioPlayer"
        => /\ lastOp = "error"
                 => (error = "Error playing audio file" /\ ~isPlaying /\ ~isLoading)
           /\ (hadError /\ lastOp = "loadTrack") => (error = "null" /\ ~isLoading)
           /\ (hadError /\ lastOp = "loadTrackFailed")
                 => (error = "Failed to load audio file" /\ ~isLoading)
           /\ (hadError /\ lastOp \in {"play", "playAnalyserFailed"}) => isPlaying

C15_Witness ==
    /\ comp = "useAudioPlayer"
    /\ hadError
    /\ lastOp = "play"
    /\ currentTrack.url = 2
    /\ isPlaying
    /\ elementPlaying
    /\ error = "null"

\* C16: in Mp3Player the playlist holds the accepted files in selection
\* order, every entry as it was created, and whenever currentTrack is
\* non-null, 0 <= currentTrackIndex < playlist.length and currentTrack is
\* playlist[currentTrackIndex].
C16_PlaylistInvariant ==
    comp = "Mp3Player"
        => /\ Len(playlist) = Len(accepted)
           /\ \A i \in 1..Len(playlist) :
                 playlist[i] = [url |-> i, file |-> accepted[i]]
           /\ currentTrack # NoTrack
                 => /\ 0 <= currentTrackIndex
                    /\ currentTrackIndex < Len(playlist)
                    /\ currentTrack = playlist[currentTrackIndex + 1]

C16_Witness ==
    /\ comp = "Mp3Player"
    /\ Len(playlist) = 3
    /\ accepted[1] # accepted[2]
    /\ currentTrackIndex = 2
    /\ currentTrack.file = accepted[3]

\* C17: after any changeVolume calls the volume state lies in [0,1] and
\* equals the volume of the audio element.
C17_VolumeInUnitRange ==
    comp = "useAudioPlayer"
        => (InRange(volume, 0, 1) /\ volume = elementVolume)

\* C18: an object URL made for a track is live only while the component is
\* mounted and the track is the current one or in the playlist; after
\* unmount none is left unreleased.
C18_UrlsRevoked ==
    comp \in {"useAudioPlayer", "Mp3Player", "MP3Player"}
        => \A u \in 1..Len(urls) :
              urls[u] = "live"
                 => /\ mounted
                    /\ \/ currentTrack.url = u
                       \/ \E i \in 1..Len(playlist) : playlist[i].url = u

\* ---------------------------------------------------------------------
\* Properties of file validation (checked under SpecFiles)
\* ---------------------------------------------------------------------

\* C19: validateAudioFile returns valid: true exactly when a file is given,
\* its declared type is one of audio/mpeg, audio/mp3, audio/wav, audio/ogg,
\* audio/aac, audio/flac and its size is at most 100 MB; otherwise valid is
\* false with an error message, a missing file being reported before a wrong
\* type and a wrong type before the size.
C19_ValidateAudioFile ==
    (comp = "validateAudioFile" /\ validation.error # "not called")
        => LET given == file # NoFile
               typeOk == /\ file.type[1] = "audio"
                         /\ file.type[2] \in {"mpeg", "mp3", "wav", "ogg", "aac", "flac"}
               sizeOk == file.size <= 104857600
           IN  /\ validation.valid <=> (given /\ typeOk /\ sizeOk)
               /\ validation.valid => validation.error = "undefined"
               /\ ~given => validation.error = "No file selected"
               /\ (given /\ ~typeOk)
                     => validation.error
                          = "Invalid file type. Please select an audio file."
               /\ (given /\ typeOk /\ ~sizeOk)
                     => validation.error = "File too large. Maximum size is 100MB."

C19_Witness ==
    /\ comp = "validateAudioFile"
    /\ file.type = <<"audio", "flac">>
    /\ file.size = 104857600
    /\ validation.valid

\* C20: in FileUpload a picked or dropped file that fails validation
\* (declared type not allowed and name not ending in mp3/wav/m4a, or size
\* greater than maxFileSize) sets a non-empty error, is not passed to
\* onFileSelect and leaves selectedFile unchanged; a file that passes clears
\* the error, becomes selectedFile and is passed to onFileSelect exactly once.
C20_UploadValidation ==
    (comp = "FileUpload" /\ lastPick.via # "none")
        => LET f == lastPick.file
               fails == \/ (f.type \notin allowedTypes /\ ~MatchesExtension(f.name))
                        \/ f.size > lastPick.maxFileSize
           IN  IF fails
               THEN /\ uploadError # <<>>
                    /\ lastPick.calls = <<>>
                    /\ selectedFile = lastPick.selectedBefore
               ELSE /\ uploadError = <<>>
                    /\ selectedFile = f
                    /\ lastPick.calls = <<f>>

\* C22: for every snapshot the hook can hold and 1 <= barCount <= len, the
\* hook's getBarData(barCount) returns exactly barCount values, each in
\* [0,1], equal to what normalizeFrequencyData returns for the same
\* snapshot and barCount.
C22_HookBarsNormalized ==
    ("getBarData" \in called /\ 1 <= barCount /\ barCount <= Len(snapshot0))
        => /\ Len(barData) = barCount
           /\ \A i \in 1..Len(barData) : InRange(barData[i], 0, 1)
           /\ barData = normalizeFrequencyData(snapshot0, barCount).result

\* C24: in useAudioPlayer, after any sequence of loadTrack, play and pause,
\* whenever analyserRef is non-null its AudioContext is still open, so
\* getFrequencyData never samples an analyser of a closed context.
C24_AnalyserContextOpen ==
    (comp = "useAudioPlayer" /\ mounted /\ analyser) => contextRef = "open"

\* C28: in useAudioPlayer, isPlaying is true only if the audio element is
\* actually playing, after any sequence of loadTrack, play, pause, ended
\* and error.
C28_IsPlayingMirrorsElement ==
    (comp = "useAudioPlayer" /\ mounted /\ isPlaying) => elementPlaying

\* C25: for each visualizer instance at most one animation-frame callback
\* is pending at any time and the frame-id ref holds the id of that pending
\* callback, for any order of play, pause and ended events.
C25_SinglePendingFrame ==
    (comp \in Components /\ mounted)
        => /\ Cardinality(pending) <= 1
           /\ \A f \in pending : f.id = frameRef

\* C26: in Mp3Player, when the current track ends, isPlaying becomes false
\* and the current track becomes playlist[(currentTrackIndex + 1) mod
\* playlist.length] of the playlist as it is when the ended event fires.
C26_EndedAdvancesInCurrentPlaylist ==
    [][Mp3HandleEnded
          => /\ isPlaying' = FALSE
             /\ currentTrackIndex' = (currentTrackIndex + 1) % Len(playlist)
             /\ currentTrack' = playlist[((currentTrackIndex + 1) % Len(playlist)) + 1]]_vars

\* C30: getWaveformPoints(points) returns exactly points values, and for
\* 1 <= points <= len element i equals waveformData[i * floor(len/points)],
\* for every sample value in 0..255.
C30_WaveformPoints ==
    wavePoints # <<>>
        => /\ Len(wavePoints) = points
           /\ (1 <= points /\ points <= Len(waveformData))
                 => \A i \in 0..(points - 1) :
                       wavePoints[i + 1]
                           = waveformData[i * (Len(waveformData) \div points) + 1]

\* C21: clearAudioCache removes every key that starts with audio_ or
\* player_ and leaves every other key and its stored value unchanged; after
\* it returns true no key with either prefix remains.
C21_ClearAudioCache ==
    storageOp.op = "clear"
        => /\ \A item \in storedBefore :
                 IF StartsWith(item[1], AudioPrefix) \/ StartsWith(item[1], PlayerPrefix)
                 THEN item[1] \notin ObjectKeys(localStorage)
                 ELSE item \in localStorage
           /\ localStorage \subseteq storedBefore
           /\ storageOp.result
                 => \A key \in ObjectKeys(localStorage) :
                       /\ ~StartsWith(key, AudioPrefix)
                       /\ ~StartsWith(key, PlayerPrefix)

C21_Witness ==
    /\ storageOp = [op |-> "clear", result |-> TRUE]
    /\ Cardinality(storedBefore) = Cardinality(StorageKeys)
    /\ Cardinality(localStorage) = 4
    /\ <<AudioPrefix, <<"1">>>> \in storedBefore
    /\ <<PlayerPrefix \o <<"s">>, <<"\"", "a", "\"">>>> \in storedBefore
    /\ <<(<<"m", "y", "_">> \o AudioPrefix), <<"\"", "a", "\"">>>> \in localStorage

\* ---------------------------------------------------------------------
\* Properties of PlaybackControls (checked under SpecControls)
\* ---------------------------------------------------------------------

\* C23: handleNextTrack and handlePrevTrack call onTrackChange only when
\* the playlist is non-empty and always with an index in [0, length); with
\* shuffle off, next yields (i+1) mod length and previous (i-1) mod length,
\* so next followed by previous returns to the original index.
C23_TrackNavigation ==
    lastNav.via \in {"next", "prev", "ended"}
        => /\ lastNav.calls # <<>> => lastNav.length > 0
           /\ \A k \in 1..Len(lastNav.calls) :
                 /\ 0 <= lastNav.calls[k]
                 /\ lastNav.calls[k] < lastNav.length
           /\ (lastNav.via = "next" /\ ~lastNav.shuffled /\ lastNav.length > 0)
                 => lastNav.calls = <<(lastNav.from + 1) % lastNav.length>>
           /\ (lastNav.via = "prev" /\ ~lastNav.shuffled /\ lastNav.length > 0)
                 => lastNav.calls
                       = <<(lastNav.from - 1 + lastNav.length) % lastNav.length>>
           /\ (/\ lastNav.via = "prev"
               /\ ~lastNav.shuffled
               /\ lastNav.before.via = "next"
               /\ ~lastNav.before.shuffled)
                 => currentTrackIndex = lastNav.before.from

C23_Witness ==
    /\ lastNav.via = "prev"
    /\ ~lastNav.shuffled
    /\ lastNav.before.via = "next"
    /\ ~lastNav.before.shuffled
    /\ lastNav.length = 3
    /\ lastNav.before.from = 2
    /\ lastNav.from = 0
    /\ currentTrackIndex = 2

\* C27: when the current track ends: with repeatMode 'one' the track
\* restarts and onTrackChange is not called; with 'all', or 'none' while not
\* on the last track, onTrackChange is called once with the next index
\* chosen according to the shuffle setting in force when the track ends; with
\* 'none' on the last track isPlaying is set to false and onTrackChange is
\* not called.
C27_EndedBehaviour ==
    lastNav.via = "ended"
        => /\ lastNav.repeatMode = "one"
                 => (lastNav.restarted /\ lastNav.calls = <<>>)
           /\ (/\ lastNav.length > 0
               /\ \/ lastNav.repeatMode = "all"
                  \/ (lastNav.repeatMode = "none" /\ lastNav.from < lastNav.length - 1))
                 => /\ Len(lastNav.calls) = 1
                    /\ IF lastNav.shuffled
                       THEN lastNav.calls[1] \in 0..(lastNav.length - 1)
                       ELSE lastNav.calls[1] = (lastNav.from + 1) % lastNav.length
           /\ (lastNav.repeatMode = "none" /\ lastNav.from >= lastNav.length - 1)
                 => /\ lastNav.calls = <<>>
                    /\ lastNav.setIsPlaying = <<FALSE>>
                    /\ ~isPlaying

\* C29: after any sequence of toggleMute and handleVolumeChange the
\* element's volume is 0 when isMuted is true and the volume state
\* otherwise; muting never changes the stored volume state and unmuting
\* restores the element to it.
C29_MuteAndVolume ==
    (comp = "PlaybackControls" /\ lastVolumeOp.op # "none")
        => /\ elementVolume = IF isMuted THEN Num(0) ELSE volume
           /\ lastVolumeOp.op = "toggleMute" => volume = lastVolumeOp.volumeBefore

C29_Witness ==
    /\ comp = "PlaybackControls"
    /\ lastVolumeOp.op = "toggleMute"
    /\ ~isMuted
    /\ volume = Rat(1, 2)
    /\ elementVolume = Rat(1, 2)

====
